---- MODULE Spec2Model ----
(***************************************************************************)
(* Parallel segmented Sieve of Eratosthenes (src/main.go).                 *)
(*                                                                         *)
(* findPrimesWithSegmentedSieve runs one dispatcher goroutine, numWorkers  *)
(* segmentedSieveWorker goroutines, one collector goroutine and the main   *)
(* goroutine, connected by the buffered channels tasks and results and the *)
(* WaitGroups wgWorkers and wgCollector.                                   *)
(*                                                                         *)
(* Every state variable is a function of a run index r \in Runs, so that   *)
(* two calls of the function can be compared (SpecTwice: run 2 is called   *)
(* when run 1 has returned).  Under Spec only run 1 is ever called.        *)
(*                                                                         *)
(* Each action is the code of one goroutine from one blocking operation    *)
(* (channel send/receive, WaitGroup.Wait) to the next; goroutine-local     *)
(* computation between two blocking operations is part of the action.      *)
(***************************************************************************)
EXTENDS Integers, Sequences, FiniteSets, TLC

\* ------------------------------------------------------------------ bounds
\* Largest upper limit maxNum a call is made with.
MaxN == 12
\* Largest segment width (SegmentSizeInNumbers) a build is made with.
MaxSeg == 10
\* Largest number of workers a call is made with.
MaxWorkers == 3
\* Largest number of segments of a call.
MaxSegments == 4
\* The same four bounds for the calls of the termination property (SpecFair).
FairMaxN == 10
FairMaxSeg == 5
FairMaxWorkers == 2
FairMaxSegments == 4
\* The same four bounds for two successive calls.
TwiceMaxN == 6
TwiceMaxSeg == 5
TwiceMaxWorkers == 2
TwiceMaxSegments == 3

\* Calls with any configuration (numWorkers from -1, segment width from 0).
AnyMaxN == 6
AnyMaxSeg == 3
AnyMaxWorkers == 2
AnyMaxSegments == 4

\* Largest maxNum of the segments sieved on their own.
SegMaxN == 26
\* Largest limit the base sieve is applied to on its own.
BaseMaxL == 50
\* Calls of findPrimesWithSieve (the shared-array sieve).
SieveMaxN == 26
SieveMaxWorkers == 3
\* isPrime applied on its own to -IsPrimeMaxNeg..IsPrimeMaxN.
IsPrimeMaxNeg == 5
IsPrimeMaxN == 125
\* Largest maxNum of sieveOfEratosthenesSequential applied on its own.
SeqMaxN == 50
\* Calls of findPrimes (the trial-division pipeline).
PipeMaxN == 8
PipeMaxWorkers == 3
\* Width in bits of the machine integer `int` in the arithmetic of the
\* segment sieve (64 or 32 in a build; small here).
IntBits == 6
\* Largest segment width of the tasks whose bit indices are followed.
IndexMaxSeg == 4

Runs == {1, 2}

VARIABLES
    maxNum,                       \* argument maxNum of the call
    numWorkers,                   \* argument numWorkers of the call
    SegmentSizeInNumbers,         \* the build's segment width
    mainPc,                       \* position of the calling goroutine
    basePrimes,                   \* primes up to sqrt(maxNum), shared read-only
    tasks,                        \* channel of SegmentTask: [buf, closed]
    results,                      \* channel of SegmentResult: [buf, closed]
    numDispatchedSegments,        \* segment count computed for the collector
    dispPc,                       \* position of the dispatcher goroutine
    currentLow,                   \* dispatcher's loop variable
    wPc,                          \* position of each worker goroutine
    wTask,                        \* the task each worker holds
    segmentPrimes,                \* the result each worker is about to send
    wgWorkers,                    \* counter of wgWorkers
    wgCollector,                  \* counter of wgCollector
    collPc,                       \* position of the collector goroutine
    intermediateCollectedPrimes,  \* collector's list of segment results
    collectedPrimesCount,         \* collector's running sum of lengths
    finalPrimes,                  \* the list the call returns
    panicked,                     \* the runtime panic that ended the program
    sentCount,                    \* history: sends of each task, by low
    recvCount,                    \* history: receptions of each task, by low
    resultCount,                  \* history: results sent for each task, by low
    producedPrimesCount,          \* history: sum of lengths of results sent
    dispatchedTasks,              \* history: the tasks sent, in sending order
    pure,                         \* a function applied on its own: [fn, args, result]
    sieve,                        \* a call of findPrimesWithSieve: its locals
    pipeline                      \* a call of findPrimes: its locals

vars == << maxNum, numWorkers, SegmentSizeInNumbers, mainPc, basePrimes, tasks,
           results, numDispatchedSegments, dispPc, currentLow, wPc, wTask,
           segmentPrimes, wgWorkers, wgCollector, collPc,
           intermediateCollectedPrimes, collectedPrimesCount, finalPrimes,
           panicked, sentCount, recvCount, resultCount, producedPrimesCount,
           dispatchedTasks, pure, sieve, pipeline >>

\* ---------------------------------------------------------- bitset helpers
\* A []byte is a function from byte index to the set of bit offsets set in it.

\* Variant: the bytes come with the marks a previous segment (odd low,
\* multiples of 2) left at the odd offsets.
MakeBitsetWithOldMarks(n) == [b \in 0..(n - 1) |-> {1, 3, 5, 7}]

\* make([]byte, n): n zero bytes.
MakeBitset(n) == [b \in 0..(n - 1) |-> {}]

\* segmentBitset[byteIndex] |= (1 << bitOffset)
markBitSegment(indexInSegment, segmentBitset) ==
    LET byteIndex == indexInSegment \div 8
        bitOffset == indexInSegment % 8
    IN  [segmentBitset EXCEPT ![byteIndex] = @ \cup {bitOffset}]

\* (segmentBitset[byteIndex] & (1 << bitOffset)) != 0
isBitMarkedSegment(indexInSegment, segmentBitset) ==
    LET byteIndex == indexInSegment \div 8
        bitOffset == indexInSegment % 8
    IN  bitOffset \in segmentBitset[byteIndex]

\* ------------------------------------------------------------- base sieve
\* Inner loop: for multiple := p*p; multiple <= maxNumInternal; multiple += 2*p.
\* isComposite is the set of indices whose flag is true.
RECURSIVE MarkOddMultiples(_, _, _, _)
MarkOddMultiples(isComposite, multiple, p, maxNumInternal) ==
    IF multiple <= maxNumInternal
    THEN MarkOddMultiples(isComposite \cup {multiple}, multiple + 2 * p, p,
                          maxNumInternal)
    ELSE isComposite

\* Outer loop: for p := 3; p*p <= maxNumInternal; p += 2.
RECURSIVE BaseSieveMark(_, _, _)
BaseSieveMark(isComposite, p, maxNumInternal) ==
    IF p * p <= maxNumInternal
    THEN BaseSieveMark(IF p \notin isComposite
                       THEN MarkOddMultiples(isComposite, p * p, p, maxNumInternal)
                       ELSE isComposite,
                       p + 2, maxNumInternal)
    ELSE isComposite

\* Collection loop: for i := 3; i <= maxNumInternal; i += 2.
RECURSIVE BaseSieveCollect(_, _, _, _)
BaseSieveCollect(primesList, i, isComposite, maxNumInternal) ==
    IF i <= maxNumInternal
    THEN BaseSieveCollect(IF i \notin isComposite
                          THEN Append(primesList, i)
                          ELSE primesList,
                          i + 2, isComposite, maxNumInternal)
    ELSE primesList

\* Variant of the collection loop: i++ instead of i += 2.
RECURSIVE BaseSieveCollectEvery(_, _, _, _)
BaseSieveCollectEvery(primesList, i, isComposite, maxNumInternal) ==
    IF i <= maxNumInternal
    THEN BaseSieveCollectEvery(IF i \notin isComposite
                               THEN Append(primesList, i)
                               ELSE primesList,
                               i + 1, isComposite, maxNumInternal)
    ELSE primesList

\* Variant: the base sieve collecting every unmarked i >= 3.
sieveBaseCollectsEvery(maxNumInternal) ==
    IF maxNumInternal < 2
    THEN << >>
    ELSE BaseSieveCollectEvery(<< 2 >>, 3, BaseSieveMark({}, 3, maxNumInternal),
                               maxNumInternal)

\* Variant: the early return taken for maxNumInternal <= 2.
sieveBaseEarlyReturnAtTwo(maxNumInternal) ==
    IF maxNumInternal <= 2
    THEN << >>
    ELSE BaseSieveCollect(<< 2 >>, 3, BaseSieveMark({}, 3, maxNumInternal),
                          maxNumInternal)

sieveOfEratosthenesSequentialBase(maxNumInternal) ==
    IF maxNumInternal < 2
    THEN << >>
    ELSE LET isComposite == BaseSieveMark({}, 3, maxNumInternal)
         IN  BaseSieveCollect(<< 2 >>, 3, isComposite, maxNumInternal)

\* Variant: a square root that comes out just below the root of a perfect
\* square and is truncated to the integer below.
IntSqrtBelow(n) == CHOOSE s \in 0..n : s * s < n /\ (s + 1) * (s + 1) >= n

\* Variant: the square root rounded up instead of truncated.
IntSqrtAbove(n) == CHOOSE s \in 0..n : s * s >= n /\ (s = 0 \/ (s - 1) * (s - 1) < n)

\* int(math.Sqrt(float64(n))): the floor of the square root (exact for the
\* values a float64 represents exactly).
IntSqrt(n) == CHOOSE s \in 0..n : s * s <= n /\ (s + 1) * (s + 1) > n

\* ---------------------------------------------------------- segment sieve
\* for multiple := actualStartMarking; multiple <= task.high; multiple += p
RECURSIVE MarkMultiplesInSegment(_, _, _, _)
MarkMultiplesInSegment(segmentBitset, multiple, p, task) ==
    IF multiple <= task.high
    THEN MarkMultiplesInSegment(
             IF multiple >= task.low
             THEN markBitSegment(multiple - task.low, segmentBitset)
             ELSE segmentBitset,
             multiple + p, p, task)
    ELSE segmentBitset

\* Variant: marking starts at the first multiple >= task.low, also below p*p.
ActualStartMarkingNoSquare(p, task) == ((task.low + p - 1) \div p) * p

\* max(p*p, ceil(task.low / p) * p)
ActualStartMarking(p, task) ==
    LET startMultipleInP == ((task.low + p - 1) \div p) * p
    IN  IF startMultipleInP < p * p THEN p * p ELSE startMultipleInP

\* Variant of the loop over the base primes: the break taken at
\* p*p >= task.high.
RECURSIVE SieveSegmentBreakAtEqual(_, _, _, _)
SieveSegmentBreakAtEqual(segmentBitset, k, task, bp) ==
    IF k > Len(bp)
    THEN segmentBitset
    ELSE IF bp[k] * bp[k] >= task.high
         THEN segmentBitset
         ELSE SieveSegmentBreakAtEqual(
                  MarkMultiplesInSegment(segmentBitset,
                                         ActualStartMarking(bp[k], task),
                                         bp[k], task),
                  k + 1, task, bp)

\* Variant of the loop over the base primes: the break taken at
\* p*p > task.low.
RECURSIVE SieveSegmentBreakAtLow(_, _, _, _)
SieveSegmentBreakAtLow(segmentBitset, k, task, bp) ==
    IF k > Len(bp)
    THEN segmentBitset
    ELSE IF bp[k] * bp[k] > task.low
         THEN segmentBitset
         ELSE SieveSegmentBreakAtLow(
                  MarkMultiplesInSegment(segmentBitset,
                                         ActualStartMarking(bp[k], task),
                                         bp[k], task),
                  k + 1, task, bp)

\* The loop over the base primes run without its break: every base prime
\* computes its start and runs its marking loop.
RECURSIVE SieveSegmentAllPrimes(_, _, _, _)
SieveSegmentAllPrimes(segmentBitset, k, task, bp) ==
    IF k > Len(bp)
    THEN segmentBitset
    ELSE SieveSegmentAllPrimes(
             MarkMultiplesInSegment(segmentBitset,
                                    ActualStartMarking(bp[k], task),
                                    bp[k], task),
             k + 1, task, bp)

\* for _, p := range basePrimes, with the break at p*p > task.high;
\* k is the index of the next base prime.
RECURSIVE SieveSegment(_, _, _, _)
SieveSegment(segmentBitset, k, task, bp) ==
    IF k > Len(bp)
    THEN segmentBitset
    ELSE IF bp[k] * bp[k] > task.high
         THEN segmentBitset
         ELSE SieveSegment(
                  MarkMultiplesInSegment(segmentBitset,
                                         ActualStartMarking(bp[k], task),
                                         bp[k], task),
                  k + 1, task, bp)

\* The largest and the smallest value of an int of IntBits bits.
MaxInt == 2^(IntBits - 1) - 1
MinInt == -(2^(IntBits - 1))

\* x is representable in an int.
Fits(x) == MinInt <= x /\ x <= MaxInt

\* The int that the machine stores for the exact value x (two's complement).
Wrap(x) == ((x - MinInt) % 2^IntBits) + MinInt

NoOverflow == [expr |-> "none", value |-> 0, stored |-> 0]
Overflow(expr, x) == [expr |-> expr, value |-> x, stored |-> Wrap(x)]

\* for multiple := actualStartMarking; multiple <= task.high; multiple += p
\* followed in ints: the first `multiple += p` whose exact value is not
\* representable, with the value the machine stores instead. (The stored
\* value is negative, so multiple <= task.high stays true and the loop
\* goes on from there.)
RECURSIVE MultipleArithmetic(_, _, _)
MultipleArithmetic(multiple, p, task) ==
    IF multiple <= task.high
    THEN IF Fits(multiple + p)
         THEN MultipleArithmetic(multiple + p, p, task)
         ELSE Overflow("multiple += p", multiple + p)
    ELSE NoOverflow

\* The arithmetic of the loop over the base primes, followed in ints up to
\* its first result that is not representable: the p*p of the comparison
\* (int64, no wider than int in a 64-bit build), task.low + p - 1 and the
\* product of startMultipleInP, the p*p of the assignment, multiple += p.
RECURSIVE SegmentArithmetic(_, _, _)
SegmentArithmetic(k, task, bp) ==
    IF k > Len(bp)
    THEN NoOverflow
    ELSE LET p == bp[k]
             startMultipleInP == ((task.low + p - 1) \div p) * p
             marking == MultipleArithmetic(ActualStartMarking(p, task), p, task)
         IN  IF ~Fits(p * p)
             THEN Overflow("int64(p)*int64(p)", p * p)
             ELSE IF p * p > task.high
             THEN NoOverflow
             ELSE IF ~Fits(task.low + p - 1)
             THEN Overflow("task.low + p - 1", task.low + p - 1)
             ELSE IF ~Fits(startMultipleInP)
             THEN Overflow("((task.low + p - 1) / p) * p", startMultipleInP)
             ELSE IF marking.expr # "none"
             THEN marking
             ELSE SegmentArithmetic(k + 1, task, bp)

\* a / b of Go for b > 0: the quotient truncated toward zero.
TruncDiv(a, b) == IF a >= 0 THEN a \div b ELSE -((-a) \div b)

NoIndices == [marked |-> {}, guardFalse |-> {}, seen |-> {}]

\* for multiple := actualStartMarking; multiple <= task.high; multiple += p
\* { if multiple >= task.low { markBitSegment(multiple - task.low, ...) } }
\* followed in ints: the indices passed to markBitSegment and the values of
\* multiple at which the guard is false. The loop is followed until
\* multiple > task.high or multiple takes a value it had before.
RECURSIVE MarkingIndices(_, _, _, _)
MarkingIndices(trace, multiple, p, task) ==
    IF multiple <= task.high /\ multiple \notin trace.seen
    THEN MarkingIndices(
             [marked |-> IF multiple >= task.low
                         THEN trace.marked \cup {multiple - task.low}
                         ELSE trace.marked,
              guardFalse |-> IF multiple >= task.low
                             THEN trace.guardFalse
                             ELSE trace.guardFalse \cup {multiple},
              seen |-> trace.seen \cup {multiple}],
             Wrap(multiple + p), p, task)
    ELSE trace

\* The loop over the base primes, followed in ints: break at p*p >
\* task.high, startMultipleInP, actualStartMarking, the marking loop.
RECURSIVE SegmentIndices(_, _, _, _)
SegmentIndices(trace, k, task, bp) ==
    IF k > Len(bp)
    THEN trace
    ELSE LET p == bp[k]
             startMultipleInP == Wrap(TruncDiv(Wrap(task.low + p - 1), p) * p)
             actualStartMarking == IF startMultipleInP < Wrap(p * p)
                                   THEN Wrap(p * p) ELSE startMultipleInP
         IN  IF p * p > task.high
             THEN trace
             ELSE SegmentIndices(
                      MarkingIndices([trace EXCEPT !.seen = {}],
                                     actualStartMarking, p, task),
                      k + 1, task, bp)

\* for i := 0; i < segmentNumCount; i++: the indices passed to
\* isBitMarkedSegment (none for currentNum < 2).
CollectIndices(task) ==
    {i \in 0..(task.high - task.low) : task.low + i >= 2}

\* Variant of the collecting loop: every unmarked value is collected, 0 and
\* 1 included.
RECURSIVE CollectSegmentNoSkip(_, _, _, _, _)
CollectSegmentNoSkip(primesList, i, segmentNumCount, task, segmentBitset) ==
    IF i < segmentNumCount
    THEN CollectSegmentNoSkip(
             IF ~isBitMarkedSegment(i, segmentBitset)
             THEN Append(primesList, task.low + i)
             ELSE primesList,
             i + 1, segmentNumCount, task, segmentBitset)
    ELSE primesList

\* for i := 0; i < segmentNumCount; i++: collect the unmarked values >= 2.
RECURSIVE CollectSegment(_, _, _, _, _)
CollectSegment(primesList, i, segmentNumCount, task, segmentBitset) ==
    IF i < segmentNumCount
    THEN CollectSegment(
             IF task.low + i < 2
             THEN primesList
             ELSE IF ~isBitMarkedSegment(i, segmentBitset)
                  THEN Append(primesList, task.low + i)
                  ELSE primesList,
             i + 1, segmentNumCount, task, segmentBitset)
    ELSE primesList

\* The values of [task.low, task.high] whose bit is set in segmentBitset
\* (bit k stands for the value task.low + k).
MarkedValues(segmentBitset, task) ==
    {task.low + k : k \in {j \in 0..(task.high - task.low) :
                               isBitMarkedSegment(j, segmentBitset)}}

\* make([]byte, segmentBitsetLen) for the task.
SegmentBitsetFor(task) == MakeBitset((task.high - task.low + 1 + 7) \div 8)

\* The body of the worker's loop for one task, up to the send.
SegmentPrimesOf(task, bp) ==
    LET segmentNumCount == task.high - task.low + 1
        segmentBitsetLen == (segmentNumCount + 7) \div 8
        segmentBitset == SieveSegment(MakeBitset(segmentBitsetLen), 1, task, bp)
    IN  CollectSegment(<< >>, 0, segmentNumCount, task, segmentBitset)

\* ------------------------------------------------------- final assembly
\* for _, segmentPrimes := range intermediateCollectedPrimes { append(...) }
RECURSIVE Concatenate(_)
Concatenate(lists) ==
    IF lists = << >> THEN << >> ELSE Head(lists) \o Concatenate(Tail(lists))

\* Insert x in the ascending list s, keeping equal values.
RECURSIVE InsertSorted(_, _)
InsertSorted(x, s) ==
    IF s = << >> THEN << x >>
    ELSE IF x <= Head(s) THEN << x >> \o s
         ELSE << Head(s) >> \o InsertSorted(x, Tail(s))

\* sort.Ints: the ascending permutation of s (duplicates kept).
RECURSIVE SortInts(_)
SortInts(s) ==
    IF s = << >> THEN << >> ELSE InsertSorted(Head(s), SortInts(Tail(s)))

\* ---------------------------------------------------------------- channels
\* make(chan T, n): an open channel with an empty buffer (capacity is numWorkers).
MakeChan == [buf |-> << >>, closed |-> FALSE]

\* Variant: a channel made with one slot less than asked for.
ChanHasRoomOneLess(ch, capacity) == Len(ch.buf) < capacity - 1

\* A send on ch, made with make(chan T, capacity), does not have to wait.
\* With capacity 0 a send needs a receiver standing at the channel, and the
\* receive steps of this model take buffered values only.
ChanHasRoom(ch, capacity) == Len(ch.buf) < capacity

\* Variant: a send that drops an empty list.
ChanSendSkipsEmpty(ch, v) == IF v = << >> THEN ch ELSE [ch EXCEPT !.buf = Append(@, v)]

\* Variant: a send puts the value into the buffer twice.
ChanSendTwice(ch, v) == [ch EXCEPT !.buf = Append(Append(@, v), v)]

\* ch <- v, once the buffer has room.
ChanSend(ch, v) == [ch EXCEPT !.buf = Append(@, v)]

\* Variant: a receive that leaves the value in the buffer.
ChanRecvKeeps(ch) == ch

\* <-ch: the channel after its oldest buffered value has been taken.
ChanRecv(ch) == [ch EXCEPT !.buf = Tail(@)]

\* close(ch)
ChanClose(ch) == [ch EXCEPT !.closed = TRUE]

\* ------------------------------------------------------- segment planning
\* for low <= maxNum { numDispatchedSegments++; low += SegmentSizeInNumbers }
RECURSIVE CountSegments(_, _, _, _)
CountSegments(n, low, max, size) ==
    IF low <= max THEN CountSegments(n + 1, low + size, max, size) ELSE n

\* Variant: the count taken as ceil(max / size), the value 0 not counted.
NumSegmentsCeilOfMax(max, size) == (max + size - 1) \div size

\* Variant: the counting loop runs once more than the dispatcher's.
NumSegmentsOneMore(max, size) == CountSegments(0, 0, max, size) + 1

\* Variant: the counting loop stops one segment short of the dispatcher's.
NumSegmentsOneLess(max, size) ==
    IF CountSegments(0, 0, max, size) > 0
    THEN CountSegments(0, 0, max, size) - 1 ELSE 0

\* numDispatchedSegments as computed before the dispatcher is started.
NumSegments(max, size) == CountSegments(0, 0, max, size)

\* Variant: currentHigh taken one past the segment (an exclusive bound used
\* as an inclusive one).
CurrentHighOnePast(low, max, size) ==
    IF low + size > max THEN max ELSE low + size

\* Variant: currentHigh not clamped to maxNum.
CurrentHighUnclamped(low, max, size) == low + size - 1

\* currentHigh of the dispatcher's loop body.
CurrentHigh(low, max, size) ==
    IF low + size - 1 > max THEN max ELSE low + size - 1

\* ------------------------------------------------------------ the call
\* A worker between two iterations of its loop holds no task: task,
\* segmentBitset and segmentPrimes are locals of the loop body.
NoTask == [low |-> -1, high |-> -1]

\* No function is applied on its own.
NoApplication == [fn |-> "none", args |-> << >>, result |-> << >>, done |-> TRUE]

\* The state before the calls are made: run r is to be called with
\* maxNum = cfg[r].n and numWorkers = cfg[r].c in a build whose segment width
\* is cfg[r].size; every local of findPrimesWithSegmentedSieve is unset.
InitPrograms(cfg, app, sieveCall, pipelineCall) ==
    /\ sieve = sieveCall
    /\ pipeline = pipelineCall
    /\ pure = app
    /\ maxNum = [r \in Runs |-> cfg[r].n]
    /\ numWorkers = [r \in Runs |-> cfg[r].c]
    /\ SegmentSizeInNumbers = [r \in Runs |-> cfg[r].size]
    /\ mainPc = [r \in Runs |-> cfg[r].pc]
    /\ basePrimes = [r \in Runs |-> << >>]
    /\ tasks = [r \in Runs |-> MakeChan]
    /\ results = [r \in Runs |-> MakeChan]
    /\ numDispatchedSegments = [r \in Runs |-> 0]
    /\ dispPc = [r \in Runs |-> "idle"]
    /\ currentLow = [r \in Runs |-> 0]
    /\ wPc = [r \in Runs |-> << >>]
    /\ wTask = [r \in Runs |-> << >>]
    /\ segmentPrimes = [r \in Runs |-> << >>]
    /\ wgWorkers = [r \in Runs |-> 0]
    /\ wgCollector = [r \in Runs |-> 0]
    /\ collPc = [r \in Runs |-> "idle"]
    /\ intermediateCollectedPrimes = [r \in Runs |-> << >>]
    /\ collectedPrimesCount = [r \in Runs |-> 0]
    /\ finalPrimes = [r \in Runs |-> << >>]
    /\ panicked = [r \in Runs |-> "none"]
    /\ sentCount = [r \in Runs |-> [l \in 0..cfg[r].n |-> 0]]
    /\ recvCount = [r \in Runs |-> [l \in 0..cfg[r].n |-> 0]]
    /\ resultCount = [r \in Runs |-> [l \in 0..cfg[r].n |-> 0]]
    /\ producedPrimesCount = [r \in Runs |-> 0]
    /\ dispatchedTasks = [r \in Runs |-> << >>]

\* No call of findPrimesWithSieve and none of findPrimes is made.
NoSieveCall == [mainPc |-> "unused"]
NoPipelineCall == [mainPc |-> "unused"]

\* The state before the calls of findPrimesWithSegmentedSieve are made, app
\* being the function applied on its own.
InitAll(cfg, app) == InitPrograms(cfg, app, NoSieveCall, NoPipelineCall)

\* The state before the calls are made, no function being applied on its own.
InitWith(cfg) == InitAll(cfg, NoApplication)

ToCall(n, c, size) == [n |-> n, c |-> c, size |-> size, pc |-> "start"]
NotCalled == [n |-> 0, c |-> 1, size |-> 1, pc |-> "unused"]

\* One call, with any maxNum >= 0, numWorkers >= 1 and segment width >= 1.
Init ==
    \E n \in 0..MaxN, c \in 1..MaxWorkers, size \in 1..MaxSeg :
        /\ CountSegments(0, 0, n, size) <= MaxSegments
        /\ InitWith([r \in Runs |-> IF r = 1 THEN ToCall(n, c, size) ELSE NotCalled])

\* Two successive calls with the same maxNum, each in a build with its own
\* segment width and with its own numWorkers.
InitTwice ==
    \E n \in 0..TwiceMaxN, c1 \in 1..TwiceMaxWorkers, c2 \in 1..TwiceMaxWorkers,
       size1 \in 1..TwiceMaxSeg, size2 \in 1..TwiceMaxSeg :
        /\ CountSegments(0, 0, n, size1) <= TwiceMaxSegments
        /\ CountSegments(0, 0, n, size2) <= TwiceMaxSegments
        /\ InitWith([r \in Runs |-> IF r = 1 THEN ToCall(n, c1, size1)
                                              ELSE ToCall(n, c2, size2)])

\* The function is synchronous: a second call is made when the first has
\* returned (goroutines the first call left behind may still be running).
CallReady(r) == r = 1 \/ mainPc[1] = "returned"

\* No goroutine of the program runs after a runtime panic.
Running(r) == panicked[r] = "none"

\* findPrimesWithSegmentedSieve from its entry to wgCollector.Wait: the early
\* return, the base primes, the channels, the workers, the segment count, the
\* dispatcher and the collector.  The goroutines started here all block at
\* once (workers on the empty tasks channel, the collector on the empty
\* results channel), except the dispatcher.
Start(r) ==
    /\ mainPc[r] = "start"
    /\ CallReady(r)
    /\ Running(r)
    /\ IF maxNum[r] < 2
       THEN /\ mainPc' = [mainPc EXCEPT ![r] = "returned"]
            /\ finalPrimes' = [finalPrimes EXCEPT ![r] = << >>]
            /\ UNCHANGED << basePrimes, tasks, results, numDispatchedSegments,
                            dispPc, currentLow, wPc, wTask, segmentPrimes,
                            wgWorkers, wgCollector, collPc,
                            intermediateCollectedPrimes, collectedPrimesCount,
                            panicked >>
       ELSE IF numWorkers[r] < 0
       THEN \* make(chan SegmentTask, numWorkers) with a negative capacity
            /\ basePrimes' = [basePrimes EXCEPT ![r] =
                  sieveOfEratosthenesSequentialBase(IntSqrt(maxNum[r]))]
            /\ panicked' = [panicked EXCEPT ![r] = "makechan: size out of range"]
            /\ UNCHANGED << mainPc, finalPrimes, tasks, results,
                            numDispatchedSegments, dispPc, currentLow, wPc,
                            wTask, segmentPrimes, wgWorkers, wgCollector,
                            collPc, intermediateCollectedPrimes,
                            collectedPrimesCount >>
       ELSE IF SegmentSizeInNumbers[r] = 0
       THEN \* low += 0 leaves low <= maxNum true: the counting loop is
            \* entered after the workers were started and is never left
            /\ basePrimes' = [basePrimes EXCEPT ![r] =
                  sieveOfEratosthenesSequentialBase(IntSqrt(maxNum[r]))]
            /\ tasks' = [tasks EXCEPT ![r] = MakeChan]
            /\ results' = [results EXCEPT ![r] = MakeChan]
            /\ wPc' = [wPc EXCEPT ![r] = [w \in 1..numWorkers[r] |-> "recv"]]
            /\ wTask' = [wTask EXCEPT ![r] = [w \in 1..numWorkers[r] |-> NoTask]]
            /\ segmentPrimes' = [segmentPrimes EXCEPT ![r] =
                  [w \in 1..numWorkers[r] |-> << >>]]
            /\ wgWorkers' = [wgWorkers EXCEPT ![r] = numWorkers[r]]
            /\ mainPc' = [mainPc EXCEPT ![r] = "countSegments"]
            /\ UNCHANGED << finalPrimes, numDispatchedSegments, dispPc,
                            currentLow, wgCollector, collPc,
                            intermediateCollectedPrimes, collectedPrimesCount,
                            panicked >>
       ELSE /\ basePrimes' = [basePrimes EXCEPT ![r] =
                  sieveOfEratosthenesSequentialBase(IntSqrt(maxNum[r]))]
            /\ tasks' = [tasks EXCEPT ![r] = MakeChan]
            /\ results' = [results EXCEPT ![r] = MakeChan]
            /\ wPc' = [wPc EXCEPT ![r] = [w \in 1..numWorkers[r] |-> "recv"]]
            /\ wTask' = [wTask EXCEPT ![r] = [w \in 1..numWorkers[r] |-> NoTask]]
            /\ segmentPrimes' = [segmentPrimes EXCEPT ![r] =
                  [w \in 1..numWorkers[r] |-> << >>]]
            /\ wgWorkers' = [wgWorkers EXCEPT ![r] = numWorkers[r]]
            /\ numDispatchedSegments' = [numDispatchedSegments EXCEPT ![r] =
                  NumSegments(maxNum[r], SegmentSizeInNumbers[r])]
            /\ dispPc' = [dispPc EXCEPT ![r] = "run"]
            /\ currentLow' = [currentLow EXCEPT ![r] = 0]
            /\ wgCollector' = [wgCollector EXCEPT ![r] = numDispatchedSegments'[r]]
            /\ collPc' = [collPc EXCEPT ![r] = "run"]
            /\ intermediateCollectedPrimes' =
                  [intermediateCollectedPrimes EXCEPT ![r] = << >>]
            /\ collectedPrimesCount' = [collectedPrimesCount EXCEPT ![r] = 0]
            /\ mainPc' = [mainPc EXCEPT ![r] = "waitCollector"]
            /\ UNCHANGED << finalPrimes, panicked >>
    /\ UNCHANGED << sieve, pipeline, pure, dispatchedTasks, maxNum, numWorkers,
                    SegmentSizeInNumbers, sentCount, recvCount, resultCount,
                    producedPrimesCount >>

\* ------------------------------------------------------------ dispatcher
\* Variant: the loop is left already when currentLow = maxNum.
DispatcherLoopEndsAtMax(r) ==
    \/ ~(currentLow[r] < maxNum[r])
    \/ currentLow[r] > CurrentHigh(currentLow[r], maxNum[r], SegmentSizeInNumbers[r])

\* The loop is left when currentLow > maxNum or at the break.
DispatcherLoopEnds(r) ==
    \/ ~(currentLow[r] <= maxNum[r])
    \/ currentLow[r] > CurrentHigh(currentLow[r], maxNum[r], SegmentSizeInNumbers[r])

\* One iteration: tasks <- SegmentTask{currentLow, currentHigh}, which waits
\* for room in the buffer, and currentLow += SegmentSizeInNumbers.
DispatcherSend(r) ==
    /\ dispPc[r] = "run"
    /\ Running(r)
    /\ ~DispatcherLoopEnds(r)
    /\ IF tasks[r].closed
       THEN /\ panicked' = [panicked EXCEPT ![r] = "send on closed channel"]
            /\ UNCHANGED << tasks, currentLow, sentCount, dispatchedTasks >>
       ELSE /\ ChanHasRoom(tasks[r], numWorkers[r])
            /\ tasks' = [tasks EXCEPT ![r] = ChanSend(@,
                  [low |-> currentLow[r],
                   high |-> CurrentHigh(currentLow[r], maxNum[r],
                                        SegmentSizeInNumbers[r])])]
            /\ currentLow' = [currentLow EXCEPT ![r] = @ + SegmentSizeInNumbers[r]]
            /\ sentCount' = [sentCount EXCEPT ![r][currentLow[r]] =
                  @ + Len(tasks'[r].buf) - Len(tasks[r].buf)]
            /\ dispatchedTasks' = [dispatchedTasks EXCEPT ![r] =
                  @ \o SubSeq(tasks'[r].buf, Len(tasks[r].buf) + 1,
                             Len(tasks'[r].buf))]
            /\ UNCHANGED panicked
    /\ UNCHANGED << sieve, pipeline, pure, maxNum, numWorkers, SegmentSizeInNumbers, mainPc, basePrimes,
                    results, numDispatchedSegments, dispPc, wPc, wTask,
                    segmentPrimes, wgWorkers, wgCollector, collPc,
                    intermediateCollectedPrimes, collectedPrimesCount,
                    finalPrimes, recvCount, resultCount, producedPrimesCount >>

\* The loop has ended: the deferred close(tasks) runs and the goroutine ends.
DispatcherClose(r) ==
    /\ dispPc[r] = "run"
    /\ Running(r)
    /\ DispatcherLoopEnds(r)
    /\ tasks' = [tasks EXCEPT ![r] = ChanClose(@)]
    /\ dispPc' = [dispPc EXCEPT ![r] = "done"]
    /\ UNCHANGED << sieve, pipeline, pure, dispatchedTasks, maxNum, numWorkers, SegmentSizeInNumbers, mainPc, basePrimes,
                    results, numDispatchedSegments, currentLow, wPc, wTask,
                    segmentPrimes, wgWorkers, wgCollector, collPc,
                    intermediateCollectedPrimes, collectedPrimesCount,
                    finalPrimes, panicked, sentCount, recvCount, resultCount,
                    producedPrimesCount >>

\* ---------------------------------------------------------------- workers
\* for task := range tasks: a task is received and sieved; the worker then
\* stands at results <- SegmentResult{primes: segmentPrimes}.
WorkerRecv(r, w) ==
    /\ wPc[r][w] = "recv"
    /\ Running(r)
    /\ tasks[r].buf # << >>
    /\ LET task == Head(tasks[r].buf)
       IN  /\ wTask' = [wTask EXCEPT ![r][w] = task]
           /\ segmentPrimes' = [segmentPrimes EXCEPT ![r][w] =
                 SegmentPrimesOf(task, basePrimes[r])]
           /\ recvCount' = [recvCount EXCEPT ![r][task.low] = @ + 1]
    /\ tasks' = [tasks EXCEPT ![r] = ChanRecv(@)]
    /\ wPc' = [wPc EXCEPT ![r][w] = "send"]
    /\ UNCHANGED << sieve, pipeline, pure, dispatchedTasks, maxNum, numWorkers, SegmentSizeInNumbers, mainPc, basePrimes,
                    results, numDispatchedSegments, dispPc, currentLow,
                    wgWorkers, wgCollector, collPc, intermediateCollectedPrimes,
                    collectedPrimesCount, finalPrimes, panicked, sentCount,
                    resultCount, producedPrimesCount >>

\* Variant: a worker sends only when no worker holds an earlier segment.
ResultsSendReadyInOrder(r, w) ==
    /\ Len(results[r].buf) < numWorkers[r]
    /\ \A v \in DOMAIN wPc[r] :
          wPc[r][v] = "send" => wTask[r][v].low >= wTask[r][w].low

\* `results <- segmentPrimes` waits for nothing but room in the buffer.
ResultsSendReady(r, w) == ChanHasRoom(results[r], numWorkers[r])

\* results <- SegmentResult{...}: waits for room in the buffer; a send on a
\* closed channel panics.
WorkerSend(r, w) ==
    /\ wPc[r][w] = "send"
    /\ Running(r)
    /\ IF results[r].closed
       THEN /\ panicked' = [panicked EXCEPT ![r] = "send on closed channel"]
            /\ UNCHANGED << results, wPc, wTask, segmentPrimes, resultCount,
                            producedPrimesCount >>
       ELSE /\ ResultsSendReady(r, w)
            /\ results' = [results EXCEPT ![r] = ChanSend(@, segmentPrimes[r][w])]
            /\ wPc' = [wPc EXCEPT ![r][w] = "recv"]
            /\ wTask' = [wTask EXCEPT ![r][w] = NoTask]
            /\ segmentPrimes' = [segmentPrimes EXCEPT ![r][w] = << >>]
            /\ resultCount' = [resultCount EXCEPT ![r][wTask[r][w].low] =
                  @ + Len(results'[r].buf) - Len(results[r].buf)]
            /\ producedPrimesCount' = [producedPrimesCount EXCEPT ![r] =
                  @ + Len(segmentPrimes[r][w])]
            /\ UNCHANGED panicked
    /\ UNCHANGED << sieve, pipeline, pure, dispatchedTasks, maxNum, numWorkers, SegmentSizeInNumbers, mainPc, basePrimes,
                    tasks, numDispatchedSegments, dispPc, currentLow,
                    wgWorkers, wgCollector, collPc,
                    intermediateCollectedPrimes, collectedPrimesCount,
                    finalPrimes, sentCount, recvCount >>

\* The range loop ends when tasks is closed and drained; the deferred
\* wg.Done() runs.
WorkerExit(r, w) ==
    /\ wPc[r][w] = "recv"
    /\ Running(r)
    /\ tasks[r].buf = << >>
    /\ tasks[r].closed
    /\ wPc' = [wPc EXCEPT ![r][w] = "done"]
    /\ IF wgWorkers[r] = 0
       THEN /\ panicked' = [panicked EXCEPT ![r] = "negative WaitGroup counter"]
            /\ UNCHANGED wgWorkers
       ELSE /\ wgWorkers' = [wgWorkers EXCEPT ![r] = @ - 1]
            /\ UNCHANGED panicked
    /\ UNCHANGED << sieve, pipeline, pure, dispatchedTasks, maxNum, numWorkers, SegmentSizeInNumbers, mainPc, basePrimes,
                    tasks, results, numDispatchedSegments, dispPc, currentLow,
                    wTask, segmentPrimes, wgCollector, collPc,
                    intermediateCollectedPrimes, collectedPrimesCount,
                    finalPrimes, sentCount, recvCount, resultCount,
                    producedPrimesCount >>

\* -------------------------------------------------------------- collector
\* Variant: the received result replaces the list.
CollectAppendOverwrites(lists, primes) == << primes >>

\* The collector's append of one received result.
CollectAppend(lists, primes) == Append(lists, primes)

\* for result := range results: one iteration, ending with wgCollector.Done().
CollectorRecv(r) ==
    /\ collPc[r] = "run"
    /\ Running(r)
    /\ results[r].buf # << >>
    /\ LET result == Head(results[r].buf)
       IN  /\ intermediateCollectedPrimes' =
                 [intermediateCollectedPrimes EXCEPT ![r] = CollectAppend(@, result)]
           /\ collectedPrimesCount' =
                 [collectedPrimesCount EXCEPT ![r] = @ + Len(result)]
    /\ results' = [results EXCEPT ![r] = ChanRecv(@)]
    /\ IF wgCollector[r] = 0
       THEN /\ panicked' = [panicked EXCEPT ![r] = "negative WaitGroup counter"]
            /\ UNCHANGED wgCollector
       ELSE /\ wgCollector' = [wgCollector EXCEPT ![r] = @ - 1]
            /\ UNCHANGED panicked
    /\ UNCHANGED << sieve, pipeline, pure, dispatchedTasks, maxNum, numWorkers, SegmentSizeInNumbers, mainPc, basePrimes,
                    tasks, numDispatchedSegments, dispPc, currentLow, wPc, wTask,
                    segmentPrimes, wgWorkers, collPc, finalPrimes, sentCount,
                    recvCount, resultCount, producedPrimesCount >>

\* The range loop ends when results is closed and drained.
CollectorExit(r) ==
    /\ collPc[r] = "run"
    /\ Running(r)
    /\ results[r].buf = << >>
    /\ results[r].closed
    /\ collPc' = [collPc EXCEPT ![r] = "done"]
    /\ UNCHANGED << sieve, pipeline, pure, dispatchedTasks, maxNum, numWorkers, SegmentSizeInNumbers, mainPc, basePrimes,
                    tasks, results, numDispatchedSegments, dispPc, currentLow,
                    wPc, wTask, segmentPrimes, wgWorkers, wgCollector,
                    intermediateCollectedPrimes, collectedPrimesCount,
                    finalPrimes, panicked, sentCount, recvCount, resultCount,
                    producedPrimesCount >>

\* --------------------------------------------------------- main goroutine
\* Variant: Wait returns while one result is still outstanding.
CollectorWaitPassesEarly(r) == wgCollector[r] <= 1

\* Variant: the main goroutine does not wait for the collector.
CollectorWaitOmitted(r) == TRUE

\* wgCollector.Wait() returns once the counter is zero.
CollectorWaitPasses(r) == wgCollector[r] = 0

MainWaitCollector(r) ==
    /\ mainPc[r] = "waitCollector"
    /\ Running(r)
    /\ CollectorWaitPasses(r)
    /\ mainPc' = [mainPc EXCEPT ![r] = "closeResults"]
    /\ UNCHANGED << sieve, pipeline, pure, dispatchedTasks, maxNum, numWorkers, SegmentSizeInNumbers, basePrimes, tasks,
                    results, numDispatchedSegments, dispPc, currentLow, wPc,
                    wTask, segmentPrimes, wgWorkers, wgCollector, collPc,
                    intermediateCollectedPrimes, collectedPrimesCount,
                    finalPrimes, panicked, sentCount, recvCount, resultCount,
                    producedPrimesCount >>

\* close(results)
MainCloseResults(r) ==
    /\ mainPc[r] = "closeResults"
    /\ Running(r)
    /\ IF results[r].closed
       THEN /\ panicked' = [panicked EXCEPT ![r] = "close of closed channel"]
            /\ UNCHANGED << results, mainPc >>
       ELSE /\ results' = [results EXCEPT ![r] = ChanClose(@)]
            /\ mainPc' = [mainPc EXCEPT ![r] = "assemble"]
            /\ UNCHANGED panicked
    /\ UNCHANGED << sieve, pipeline, pure, dispatchedTasks, maxNum, numWorkers, SegmentSizeInNumbers, basePrimes, tasks,
                    numDispatchedSegments, dispPc, currentLow, wPc, wTask,
                    segmentPrimes, wgWorkers, wgCollector, collPc,
                    intermediateCollectedPrimes, collectedPrimesCount,
                    finalPrimes, sentCount, recvCount, resultCount,
                    producedPrimesCount >>

\* Variant: the concatenation is returned unsorted.
AssembleFinalUnsorted(lists) == Concatenate(lists)

\* Final assembly: the concatenation of the collected lists, then sort.Ints.
AssembleFinal(lists) == SortInts(Concatenate(lists))

MainAssemble(r) ==
    /\ mainPc[r] = "assemble"
    /\ Running(r)
    /\ finalPrimes' = [finalPrimes EXCEPT ![r] =
          AssembleFinal(intermediateCollectedPrimes[r])]
    /\ mainPc' = [mainPc EXCEPT ![r] = "waitWorkers"]
    /\ UNCHANGED << sieve, pipeline, pure, dispatchedTasks, maxNum, numWorkers, SegmentSizeInNumbers, basePrimes, tasks,
                    results, numDispatchedSegments, dispPc, currentLow, wPc,
                    wTask, segmentPrimes, wgWorkers, wgCollector, collPc,
                    intermediateCollectedPrimes, collectedPrimesCount, panicked,
                    sentCount, recvCount, resultCount, producedPrimesCount >>

\* Variant: Wait returns while one worker has not yet called Done.
WorkersWaitPassesEarly(r) == wgWorkers[r] <= 1

\* wgWorkers.Wait() returns once the counter is zero.
WorkersWaitPasses(r) == wgWorkers[r] = 0

\* wgWorkers.Wait() returns once the counter is zero; return finalPrimes.
MainWaitWorkers(r) ==
    /\ mainPc[r] = "waitWorkers"
    /\ Running(r)
    /\ WorkersWaitPasses(r)
    /\ mainPc' = [mainPc EXCEPT ![r] = "returned"]
    /\ UNCHANGED << sieve, pipeline, pure, dispatchedTasks, maxNum, numWorkers, SegmentSizeInNumbers, basePrimes, tasks,
                    results, numDispatchedSegments, dispPc, currentLow, wPc,
                    wTask, segmentPrimes, wgWorkers, wgCollector, collPc,
                    intermediateCollectedPrimes, collectedPrimesCount,
                    finalPrimes, panicked, sentCount, recvCount, resultCount,
                    producedPrimesCount >>

\* The variables of the calls of findPrimesWithSegmentedSieve.
segmentedVars ==
    << maxNum, numWorkers, SegmentSizeInNumbers, mainPc, basePrimes, tasks,
       results, numDispatchedSegments, dispPc, currentLow, wPc, wTask,
       segmentPrimes, wgWorkers, wgCollector, collPc,
       intermediateCollectedPrimes, collectedPrimesCount, finalPrimes,
       panicked, sentCount, recvCount, resultCount, producedPrimesCount,
       dispatchedTasks >>

\* ------------------------------------------------------------------ runs
Main(r) ==
    \/ Start(r)
    \/ MainWaitCollector(r)
    \/ MainCloseResults(r)
    \/ MainAssemble(r)
    \/ MainWaitWorkers(r)

Dispatcher(r) == DispatcherSend(r) \/ DispatcherClose(r)

Worker(r, w) == WorkerRecv(r, w) \/ WorkerSend(r, w) \/ WorkerExit(r, w)

Collector(r) == CollectorRecv(r) \/ CollectorExit(r)

Next ==
    \E r \in Runs :
        \/ Main(r)
        \/ Dispatcher(r)
        \/ \E w \in DOMAIN wPc[r] : Worker(r, w)
        \/ Collector(r)

Spec == Init /\ [][Next]_vars

SpecTwice == InitTwice /\ [][Next]_vars

\* One call with any arguments the signature admits within the bounds,
\* numWorkers <= 0 included, in a build whose segment width may be 0.
InitAnyConfig ==
    \E n \in 0..AnyMaxN, c \in -1..AnyMaxWorkers, size \in 0..AnyMaxSeg :
        /\ IF size = 0 THEN TRUE
                       ELSE CountSegments(0, 0, n, size) <= AnyMaxSegments
        /\ InitWith([r \in Runs |-> IF r = 1 THEN ToCall(n, c, size) ELSE NotCalled])

SpecAnyConfig == InitAnyConfig /\ [][Next]_vars

\* ------------------------------------------- sequential sieve (bool slice)
\* make([]bool, maxNum+1); isNotPrime[0] = true; isNotPrime[1] = true
MakeIsNotPrime(max) == [i \in 0..max |-> i < 2]

\* Variant of the marking loop: it stops before maxNum.
RECURSIVE MarkMultiplesBelowMax(_, _, _, _)
MarkMultiplesBelowMax(isNotPrime, multiple, p, max) ==
    IF multiple < max
    THEN MarkMultiplesBelowMax([isNotPrime EXCEPT ![multiple] = TRUE],
                               multiple + p, p, max)
    ELSE isNotPrime

\* for multiple := p * p; multiple <= maxNum; multiple += p
RECURSIVE MarkMultiples(_, _, _, _)
MarkMultiples(isNotPrime, multiple, p, max) ==
    IF multiple <= max
    THEN MarkMultiples([isNotPrime EXCEPT ![multiple] = TRUE],
                       multiple + p, p, max)
    ELSE isNotPrime

\* for p := 2; p <= sqrtMax; p++ { if !isNotPrime[p] { ... } }
RECURSIVE SequentialSieveMark(_, _, _, _)
SequentialSieveMark(isNotPrime, p, sqrtMax, max) ==
    IF p <= sqrtMax
    THEN SequentialSieveMark(
             IF ~isNotPrime[p]
             THEN MarkMultiples(isNotPrime, p * p, p, max)
             ELSE isNotPrime,
             p + 1, sqrtMax, max)
    ELSE isNotPrime

\* for i := 2; i <= maxNum; i++ { if !isNotPrime[i] { primes = append(...) } }
RECURSIVE CollectUnmarked(_, _, _, _)
CollectUnmarked(primes, i, max, isNotPrime) ==
    IF i <= max
    THEN CollectUnmarked(IF ~isNotPrime[i] THEN Append(primes, i) ELSE primes,
                         i + 1, max, isNotPrime)
    ELSE primes

sieveOfEratosthenesSequential(max) ==
    IF max < 2
    THEN << >>
    ELSE CollectUnmarked(<< >>, 2, max,
             SequentialSieveMark(MakeIsNotPrime(max), 2, IntSqrt(max), max))

\* ------------------------------------------------- isPrime (trial division)
\* Variant of the loop: the divisors stop below sqrtN.
RECURSIVE TrialDivisionBelowRoot(_, _, _)
TrialDivisionBelowRoot(n, i, sqrtN) ==
    IF i < sqrtN
    THEN IF n % i = 0 THEN FALSE ELSE TrialDivisionBelowRoot(n, i + 2, sqrtN)
    ELSE TRUE

\* for i := 3; i <= sqrtN; i += 2 { if n%i == 0 { return false } }; return true
RECURSIVE TrialDivision(_, _, _)
TrialDivision(n, i, sqrtN) ==
    IF i <= sqrtN
    THEN IF n % i = 0 THEN FALSE ELSE TrialDivision(n, i + 2, sqrtN)
    ELSE TRUE

isPrime(n) ==
    IF n < 2 THEN FALSE
    ELSE IF n = 2 THEN TRUE
    ELSE IF n % 2 = 0 THEN FALSE
    ELSE TrialDivision(n, 3, IntSqrt(n))

\* ------------------------------------------- functions applied on their own
\* n is a prime number (trial division by every smaller number).
IsPrime(n) == n >= 2 /\ \A d \in 2..(n - 1) : n % d # 0

\* The elements of a finite set of integers, ascending.
RECURSIVE AscendingSeq(_)
AscendingSeq(S) ==
    IF S = {} THEN << >>
    ELSE LET least == CHOOSE x \in S : \A y \in S : x <= y
         IN  << least >> \o AscendingSeq(S \ {least})

\* The primes of [lo, hi], ascending.
PrimesBetween(lo, hi) == AscendingSeq({v \in lo..hi : IsPrime(v)})

\* The base primes of a call with maxNum = n: every prime p with p*p <= n.
BasePrimesFor(n) == AscendingSeq({p \in 2..n : IsPrime(p) /\ p * p <= n})

\* A function about to be applied to args.
Application(fn, args) == [fn |-> fn, args |-> args, result |-> << >>, done |-> FALSE]

\* One application: of the body of the worker's loop to a segment
\* [low, high] of [0, n] and the base primes of n, of the base sieve to a
\* limit, or of the loop's arithmetic in ints to a segment of [0, n] for
\* any n an int can hold.
InitPure ==
    \/ \E n \in 0..SegMaxN : \E low \in 0..n : \E high \in low..n :
          InitAll([r \in Runs |-> NotCalled],
                  Application("segmentSieve",
                              [task |-> [low |-> low, high |-> high],
                               basePrimes |-> BasePrimesFor(n)]))
    \/ \E limit \in 0..BaseMaxL :
          InitAll([r \in Runs |-> NotCalled],
                  Application("baseSieve", [maxNumInternal |-> limit]))
    \/ \E n \in 0..MaxInt : \E low \in 0..n : \E high \in low..n :
          InitAll([r \in Runs |-> NotCalled],
                  Application("segmentArithmetic",
                              [task |-> [low |-> low, high |-> high],
                               basePrimes |-> BasePrimesFor(n)]))
    \/ \E n \in 0..SegMaxN : \E low \in 0..n : \E high \in low..n :
          InitAll([r \in Runs |-> NotCalled],
                  Application("segmentMarks",
                              [task |-> [low |-> low, high |-> high],
                               basePrimes |-> BasePrimesFor(n)]))
    \/ \E n \in (-IsPrimeMaxNeg)..IsPrimeMaxN :
          InitAll([r \in Runs |-> NotCalled], Application("isPrime", [n |-> n]))
    \/ \E size \in 1..IndexMaxSeg : \E n \in 0..(MaxInt - size) :
          \E low \in {l \in 0..n : l % size = 0} :
              InitAll([r \in Runs |-> NotCalled],
                      Application("segmentIndices",
                                  [task |-> [low |-> low,
                                             high |-> CurrentHigh(low, n, size)],
                                   basePrimes |-> BasePrimesFor(n)]))
    \/ \E n \in 0..SeqMaxN :
          InitAll([r \in Runs |-> NotCalled],
                  Application("sequentialSieves", [maxNum |-> n]))

\* The body of the worker's loop, from the received task to the result sent.
ApplySegmentSieve ==
    /\ pure.fn = "segmentSieve"
    /\ ~pure.done
    /\ pure' = [pure EXCEPT
                  !.result = SegmentPrimesOf(pure.args.task, pure.args.basePrimes),
                  !.done = TRUE]
    /\ UNCHANGED << sieve, pipeline, maxNum, numWorkers, SegmentSizeInNumbers, mainPc, basePrimes,
                    tasks, results, numDispatchedSegments, dispPc, currentLow,
                    wPc, wTask, segmentPrimes, wgWorkers, wgCollector, collPc,
                    intermediateCollectedPrimes, collectedPrimesCount,
                    finalPrimes, panicked, sentCount, recvCount, resultCount,
                    producedPrimesCount, dispatchedTasks >>

\* sieveOfEratosthenesSequentialBase; isComposite is the array it has marked
\* (empty when it returns before allocating it).
ApplyBaseSieve ==
    /\ pure.fn = "baseSieve"
    /\ ~pure.done
    /\ pure' = [pure EXCEPT
                  !.result =
                      [primes |-> sieveOfEratosthenesSequentialBase(
                                      pure.args.maxNumInternal),
                       isComposite |->
                           IF pure.args.maxNumInternal < 2 THEN {}
                           ELSE BaseSieveMark({}, 3, pure.args.maxNumInternal)],
                  !.done = TRUE]
    /\ UNCHANGED << sieve, pipeline, maxNum, numWorkers, SegmentSizeInNumbers, mainPc, basePrimes,
                    tasks, results, numDispatchedSegments, dispPc, currentLow,
                    wPc, wTask, segmentPrimes, wgWorkers, wgCollector, collPc,
                    intermediateCollectedPrimes, collectedPrimesCount,
                    finalPrimes, panicked, sentCount, recvCount, resultCount,
                    producedPrimesCount, dispatchedTasks >>

\* The arithmetic of the worker's loop over the base primes for one task,
\* in ints of IntBits bits.
ApplySegmentArithmetic ==
    /\ pure.fn = "segmentArithmetic"
    /\ ~pure.done
    /\ pure' = [pure EXCEPT
                  !.result = SegmentArithmetic(1, pure.args.task,
                                               pure.args.basePrimes),
                  !.done = TRUE]
    /\ UNCHANGED << sieve, pipeline, maxNum, numWorkers, SegmentSizeInNumbers, mainPc, basePrimes,
                    tasks, results, numDispatchedSegments, dispPc, currentLow,
                    wPc, wTask, segmentPrimes, wgWorkers, wgCollector, collPc,
                    intermediateCollectedPrimes, collectedPrimesCount,
                    finalPrimes, panicked, sentCount, recvCount, resultCount,
                    producedPrimesCount, dispatchedTasks >>

\* The marking of one segment: the values each base prime marks when its
\* start computation and marking loop run on zero bytes, the bitset the loop
\* over the base primes leaves, the bitset it leaves when run without its
\* break, and the primes collected.
ApplySegmentMarks ==
    /\ pure.fn = "segmentMarks"
    /\ ~pure.done
    /\ LET task == pure.args.task
           bp == pure.args.basePrimes
       IN  pure' = [pure EXCEPT
              !.result =
                  [marksOf |->
                       [k \in DOMAIN bp |->
                           MarkedValues(
                               MarkMultiplesInSegment(
                                   SegmentBitsetFor(task),
                                   ActualStartMarking(bp[k], task),
                                   bp[k], task),
                               task)],
                   marked |->
                       MarkedValues(
                           SieveSegment(SegmentBitsetFor(task), 1, task, bp),
                           task),
                   markedWithoutBreak |->
                       MarkedValues(
                           SieveSegmentAllPrimes(SegmentBitsetFor(task), 1,
                                                 task, bp),
                           task),
                   primes |-> SegmentPrimesOf(task, bp)],
              !.done = TRUE]
    /\ UNCHANGED << segmentedVars, sieve, pipeline >>

\* isPrime(n)
ApplyIsPrime ==
    /\ pure.fn = "isPrime"
    /\ ~pure.done
    /\ pure' = [pure EXCEPT !.result = isPrime(pure.args.n), !.done = TRUE]
    /\ UNCHANGED << segmentedVars, sieve, pipeline >>

\* sieveOfEratosthenesSequential and sieveOfEratosthenesSequentialBase, both
\* applied to the same maxNum.
ApplySequentialSieves ==
    /\ pure.fn = "sequentialSieves"
    /\ ~pure.done
    /\ pure' = [pure EXCEPT
                  !.result =
                      [sequential |->
                           sieveOfEratosthenesSequential(pure.args.maxNum),
                       base |->
                           sieveOfEratosthenesSequentialBase(pure.args.maxNum)],
                  !.done = TRUE]
    /\ UNCHANGED << segmentedVars, sieve, pipeline >>

\* The bit indices a worker uses for one task as the dispatcher makes it,
\* in ints of IntBits bits: those it passes to markBitSegment and to
\* isBitMarkedSegment, the values of multiple that fail the guard, and the
\* length of the bitset.
ApplySegmentIndices ==
    /\ pure.fn = "segmentIndices"
    /\ ~pure.done
    /\ LET task == pure.args.task
           trace == SegmentIndices(NoIndices, 1, task, pure.args.basePrimes)
       IN  pure' = [pure EXCEPT
                      !.result = [marked |-> trace.marked,
                                  guardFalse |-> trace.guardFalse,
                                  read |-> CollectIndices(task),
                                  segmentBitsetLen |->
                                      (task.high - task.low + 1 + 7) \div 8],
                      !.done = TRUE]
    /\ UNCHANGED << sieve, pipeline, segmentedVars >>

NextPure ==
    \/ ApplySegmentSieve
    \/ ApplyBaseSieve
    \/ ApplySegmentArithmetic
    \/ ApplySegmentMarks
    \/ ApplyIsPrime
    \/ ApplySequentialSieves
    \/ ApplySegmentIndices

SpecPure == InitPure /\ [][NextPure]_vars

\* Every goroutine takes its next step when it stays able to: the Go
\* scheduler runs every runnable goroutine.
Fairness ==
    \A r \in Runs :
        /\ WF_vars(Main(r))
        /\ WF_vars(Dispatcher(r))
        /\ WF_vars(Collector(r))
        /\ \A w \in 1..FairMaxWorkers :
              WF_vars(w \in DOMAIN wPc[r] /\ Worker(r, w))

\* One call, as in Init, within the bounds of the termination property.
InitFair ==
    \E n \in 0..FairMaxN, c \in 1..FairMaxWorkers, size \in 1..FairMaxSeg :
        /\ CountSegments(0, 0, n, size) <= FairMaxSegments
        /\ InitWith([r \in Runs |-> IF r = 1 THEN ToCall(n, c, size) ELSE NotCalled])

SpecFair == InitFair /\ [][Next]_vars /\ Fairness

\* ------------------------------------- findPrimesWithSieve (shared array)
\* findPrimesWithSieve(n, c) about to be called. raced is history: the
\* indices written while another worker stood at a write of the same index.
\* taken is history: for each index of basePrimes, the workers that have
\* taken the base prime at that index, in the order they did.
SieveCall(n, c) ==
    [mainPc |-> "start", maxNum |-> n, numWorkers |-> c, basePrimes |-> << >>,
     primesPerWorker |-> 0, isNotPrime |-> << >>, wg |-> 0, workers |-> << >>,
     primes |-> << >>, raced |-> {}, taken |-> << >>]

\* Variant: the block size rounded down.
PrimesPerWorkerFloor(len, c) == len \div c

\* primesPerWorker := (len(basePrimes) + numWorkers - 1) / numWorkers
PrimesPerWorker(len, c) == (len + c - 1) \div c

\* Variant: every worker's block starts at index 0.
SieveWorkerAtStartFromZero(workerID, primesPerWorker, len) ==
    [pc |-> "outer",
     i |-> 0,
     endIdx |-> IF (workerID + 1) * primesPerWorker > len
                THEN len ELSE (workerID + 1) * primesPerWorker,
     p |-> 0,
     multiple |-> 0]

\* The worker goroutine workerID at its start: startIdx, endIdx computed.
SieveWorkerAtStart(workerID, primesPerWorker, len) ==
    [pc |-> "outer",
     i |-> workerID * primesPerWorker,
     endIdx |-> IF (workerID + 1) * primesPerWorker > len
                THEN len ELSE (workerID + 1) * primesPerWorker,
     p |-> 0,
     multiple |-> 0]

\* findPrimesWithSieve up to wg.Wait(): the early return, the base primes,
\* the array, and the workers started (wg.Add(1) for each).
SieveStart ==
    /\ sieve.mainPc = "start"
    /\ IF sieve.maxNum < 2
       THEN sieve' = [sieve EXCEPT !.mainPc = "returned", !.primes = << >>]
       ELSE LET bp == sieveOfEratosthenesSequential(IntSqrt(sieve.maxNum))
                ppw == PrimesPerWorker(Len(bp), sieve.numWorkers)
            IN  sieve' = [sieve EXCEPT
                    !.basePrimes = bp,
                    !.primesPerWorker = ppw,
                    !.isNotPrime = MakeIsNotPrime(sieve.maxNum),
                    !.wg = sieve.numWorkers,
                    !.workers = [w \in 0..(sieve.numWorkers - 1) |->
                                    SieveWorkerAtStart(w, ppw, Len(bp))],
                    !.taken = [i \in 0..(Len(bp) - 1) |-> << >>],
                    !.mainPc = "wait"]
    /\ UNCHANGED << segmentedVars, pure, pipeline >>

\* for i := startIdx; i < endIdx; i++: the next base prime of the block is
\* taken (multiple := p*p), or the block is done and the deferred wg.Done()
\* runs.
SieveWorkerOuter(w) ==
    /\ sieve.mainPc # "unused"
    /\ w \in DOMAIN sieve.workers
    /\ sieve.workers[w].pc = "outer"
    /\ LET me == sieve.workers[w]
       IN  IF me.i < me.endIdx
           THEN LET p == sieve.basePrimes[me.i + 1]
                IN  sieve' = [sieve EXCEPT
                        !.workers[w] = [me EXCEPT !.p = p, !.multiple = p * p,
                                                  !.pc = "inner"],
                        !.taken[me.i] = Append(@, w)]
           ELSE sieve' = [sieve EXCEPT !.workers[w].pc = "done", !.wg = @ - 1]
    /\ UNCHANGED << segmentedVars, pure, pipeline >>

\* One iteration of the marking loop: isNotPrime[multiple] = true, a plain
\* store to the array every worker writes (a store of the value true to one
\* bool; concurrent stores to the same element all store true), then
\* multiple += p; or the loop ends and i++.
SieveWorkerInner(w) ==
    /\ sieve.mainPc # "unused"
    /\ w \in DOMAIN sieve.workers
    /\ sieve.workers[w].pc = "inner"
    /\ LET me == sieve.workers[w]
       IN  IF me.multiple <= sieve.maxNum
           THEN sieve' = [sieve EXCEPT
                    !.isNotPrime[me.multiple] = TRUE,
                    !.workers[w].multiple = me.multiple + me.p,
                    !.raced = IF \E v \in DOMAIN sieve.workers \ {w} :
                                    /\ sieve.workers[v].pc = "inner"
                                    /\ sieve.workers[v].multiple = me.multiple
                              THEN @ \cup {me.multiple} ELSE @]
           ELSE sieve' = [sieve EXCEPT
                    !.workers[w].i = me.i + 1,
                    !.workers[w].pc = "outer"]
    /\ UNCHANGED << segmentedVars, pure, pipeline >>

\* Variant: Wait returns while one worker has not yet called Done.
SieveWaitPassesEarly == sieve.wg <= 1

\* wg.Wait() returns once the counter is zero.
SieveWaitPasses == sieve.wg = 0

\* wg.Wait()
SieveMainWait ==
    /\ sieve.mainPc = "wait"
    /\ SieveWaitPasses
    /\ sieve' = [sieve EXCEPT !.mainPc = "collect"]
    /\ UNCHANGED << segmentedVars, pure, pipeline >>

\* Phase 4: the unmarked values of 2..maxNum are collected and returned.
SieveMainCollect ==
    /\ sieve.mainPc = "collect"
    /\ sieve' = [sieve EXCEPT
                    !.primes = CollectUnmarked(<< >>, 2, sieve.maxNum,
                                               sieve.isNotPrime),
                    !.mainPc = "returned"]
    /\ UNCHANGED << segmentedVars, pure, pipeline >>

\* One call of findPrimesWithSieve, any maxNum >= 0 and numWorkers >= 1.
InitSieve ==
    \E n \in 0..SieveMaxN, c \in 1..SieveMaxWorkers :
        InitPrograms([r \in Runs |-> NotCalled], NoApplication,
                     SieveCall(n, c), NoPipelineCall)

NextSieve ==
    \/ SieveStart
    \/ \E w \in 0..(SieveMaxWorkers - 1) : SieveWorkerOuter(w)
    \/ \E w \in 0..(SieveMaxWorkers - 1) : SieveWorkerInner(w)
    \/ SieveMainWait
    \/ SieveMainCollect

SpecSieve == InitSieve /\ [][NextSieve]_vars

\* ------------------------------------------ findPrimes (worker pipeline)
\* findPrimes(n, c) about to be called. received and found are history: how
\* often each number was received, and the numbers the workers found prime.
PipelineCall(n, c) ==
    [mainPc |-> "start", maxNum |-> n, numWorkers |-> c,
     jobs |-> MakeChan, results |-> MakeChan, wg |-> 0,
     dispPc |-> "idle", i |-> 1, workers |-> << >>, closerPc |-> "idle",
     primes |-> << >>, returned |-> << >>, panicked |-> "none",
     received |-> [v \in 1..n |-> 0], found |-> {}]

PipelineRunning == pipeline.mainPc # "unused" /\ pipeline.panicked = "none"

\* findPrimes up to the collecting loop: the channels (capacity maxNum), the
\* workers (wg.Add(1) for each), the dispatcher and the closing goroutine.
PipelineStart ==
    /\ pipeline.mainPc = "start"
    /\ PipelineRunning
    /\ pipeline' = [pipeline EXCEPT
          !.wg = pipeline.numWorkers,
          !.workers = [w \in 1..pipeline.numWorkers |-> [pc |-> "recv", num |-> 0]],
          !.dispPc = "run",
          !.closerPc = "wait",
          !.mainPc = "collect"]
    /\ UNCHANGED << segmentedVars, pure, sieve >>

\* jobs <- i; i++
PipelineDispatcherSend ==
    /\ PipelineRunning
    /\ pipeline.dispPc = "run"
    /\ pipeline.i <= pipeline.maxNum
    /\ IF pipeline.jobs.closed
       THEN pipeline' = [pipeline EXCEPT !.panicked = "send on closed channel"]
       ELSE /\ ChanHasRoom(pipeline.jobs, pipeline.maxNum)
            /\ pipeline' = [pipeline EXCEPT
                  !.jobs = ChanSend(@, pipeline.i),
                  !.i = @ + 1]
    /\ UNCHANGED << segmentedVars, pure, sieve >>

\* close(jobs), after the loop
PipelineDispatcherClose ==
    /\ PipelineRunning
    /\ pipeline.dispPc = "run"
    /\ pipeline.i > pipeline.maxNum
    /\ pipeline' = [pipeline EXCEPT !.jobs = ChanClose(@), !.dispPc = "done"]
    /\ UNCHANGED << segmentedVars, pure, sieve >>

\* for num := range jobs { if isPrime(num) { ... } }: a number is received
\* and tested; the worker then stands at results <- num, or at the next
\* receive.
PipelineWorkerRecv(w) ==
    /\ PipelineRunning
    /\ w \in DOMAIN pipeline.workers
    /\ pipeline.workers[w].pc = "recv"
    /\ pipeline.jobs.buf # << >>
    /\ LET num == Head(pipeline.jobs.buf)
       IN  pipeline' = [pipeline EXCEPT
              !.jobs = ChanRecv(@),
              !.received[num] = @ + 1,
              !.found = IF isPrime(num) THEN @ \cup {num} ELSE @,
              !.workers[w] = IF isPrime(num)
                             THEN [pc |-> "send", num |-> num]
                             ELSE [pc |-> "recv", num |-> 0]]
    /\ UNCHANGED << segmentedVars, pure, sieve >>

\* results <- num
PipelineWorkerSend(w) ==
    /\ PipelineRunning
    /\ w \in DOMAIN pipeline.workers
    /\ pipeline.workers[w].pc = "send"
    /\ IF pipeline.results.closed
       THEN pipeline' = [pipeline EXCEPT !.panicked = "send on closed channel"]
       ELSE /\ ChanHasRoom(pipeline.results, pipeline.maxNum)
            /\ pipeline' = [pipeline EXCEPT
                  !.results = ChanSend(@, pipeline.workers[w].num),
                  !.workers[w] = [pc |-> "recv", num |-> 0]]
    /\ UNCHANGED << segmentedVars, pure, sieve >>

\* The range loop ends when jobs is closed and drained; the deferred
\* wg.Done() runs.
PipelineWorkerExit(w) ==
    /\ PipelineRunning
    /\ w \in DOMAIN pipeline.workers
    /\ pipeline.workers[w].pc = "recv"
    /\ pipeline.jobs.buf = << >>
    /\ pipeline.jobs.closed
    /\ pipeline' = [pipeline EXCEPT !.workers[w].pc = "done", !.wg = @ - 1]
    /\ UNCHANGED << segmentedVars, pure, sieve >>

\* Variant: Wait returns while one worker has not yet called wg.Done().
PipelineWaitPassesEarly == pipeline.wg <= 1

\* wg.Wait() returns once the counter is zero.
PipelineWaitPasses == pipeline.wg = 0

\* wg.Wait() of the closing goroutine returns.
PipelineCloserWait ==
    /\ PipelineRunning
    /\ pipeline.closerPc = "wait"
    /\ PipelineWaitPasses
    /\ pipeline' = [pipeline EXCEPT !.closerPc = "close"]
    /\ UNCHANGED << segmentedVars, pure, sieve >>

\* close(results)
PipelineCloserClose ==
    /\ PipelineRunning
    /\ pipeline.closerPc = "close"
    /\ pipeline' = [pipeline EXCEPT !.results = ChanClose(@), !.closerPc = "done"]
    /\ UNCHANGED << segmentedVars, pure, sieve >>

\* for prime := range results { primes = append(primes, prime) }
PipelineCollect ==
    /\ PipelineRunning
    /\ pipeline.mainPc = "collect"
    /\ pipeline.results.buf # << >>
    /\ pipeline' = [pipeline EXCEPT
          !.primes = Append(@, Head(pipeline.results.buf)),
          !.results = ChanRecv(@)]
    /\ UNCHANGED << segmentedVars, pure, sieve >>

\* Variant: the collected numbers are returned in the order of arrival.
PipelineSortSkipped(primes) == primes

\* sort.Ints(primes)
PipelineSort(primes) == SortInts(primes)

\* The range loop ends when results is closed and drained; the sorted list
\* is returned.
PipelineReturn ==
    /\ PipelineRunning
    /\ pipeline.mainPc = "collect"
    /\ pipeline.results.buf = << >>
    /\ pipeline.results.closed
    /\ pipeline' = [pipeline EXCEPT
          !.returned = PipelineSort(pipeline.primes),
          !.mainPc = "returned"]
    /\ UNCHANGED << segmentedVars, pure, sieve >>

\* One call of findPrimes, any maxNum >= 0 and numWorkers >= 1.
InitPipeline ==
    \E n \in 0..PipeMaxN, c \in 1..PipeMaxWorkers :
        InitPrograms([r \in Runs |-> NotCalled], NoApplication,
                     NoSieveCall, PipelineCall(n, c))

NextPipeline ==
    \/ PipelineStart
    \/ PipelineDispatcherSend
    \/ PipelineDispatcherClose
    \/ \E w \in 1..PipeMaxWorkers : PipelineWorkerRecv(w)
    \/ \E w \in 1..PipeMaxWorkers : PipelineWorkerSend(w)
    \/ \E w \in 1..PipeMaxWorkers : PipelineWorkerExit(w)
    \/ PipelineCloserWait
    \/ PipelineCloserClose
    \/ PipelineCollect
    \/ PipelineReturn

SpecPipeline == InitPipeline /\ [][NextPipeline]_vars

\* Every goroutine of findPrimes takes its next step when it stays able to.
PipelineFairness ==
    /\ WF_vars(PipelineStart \/ PipelineCollect \/ PipelineReturn)
    /\ WF_vars(PipelineDispatcherSend \/ PipelineDispatcherClose)
    /\ \A w \in 1..PipeMaxWorkers :
          WF_vars(PipelineWorkerRecv(w) \/ PipelineWorkerSend(w)
                  \/ PipelineWorkerExit(w))
    /\ WF_vars(PipelineCloserWait \/ PipelineCloserClose)

SpecPipelineFair == InitPipeline /\ [][NextPipeline]_vars /\ PipelineFairness

\* ------------------------------------------------------------ properties
Range(s) == {s[i] : i \in DOMAIN s}

StrictlyAscending(s) == \A i \in 1..(Len(s) - 1) : s[i] < s[i + 1]

Returned(r) == mainPc[r] = "returned"

\* Tasks with low = l waiting in the tasks channel.
Buffered(r, l) ==
    Cardinality({i \in DOMAIN tasks[r].buf : tasks[r].buf[i].low = l})

\* Workers holding the task with low = l, its result not yet sent.
Held(r, l) == Cardinality({w \in DOMAIN wPc[r] : wTask[r][w].low = l})

\* Every goroutine of the call has ended and the call has returned.
AllTerminated(r) ==
    /\ Returned(r)
    /\ dispPc[r] = "done"
    /\ collPc[r] = "done"
    /\ \A w \in DOMAIN wPc[r] : wPc[r][w] = "done"

\* C1: a returned list holds exactly the primes of [2, maxNum]: each of its
\* values is prime, and no prime of [0, maxNum] is missing from it.
C1_ExactlyThePrimes ==
    \A r \in Runs :
        Returned(r) =>
            /\ \A i \in DOMAIN finalPrimes[r] : IsPrime(finalPrimes[r][i])
            /\ \A v \in 0..maxNum[r] :
                  v \notin Range(finalPrimes[r]) => ~IsPrime(v)

\* A call over four segments whose last one starts at 3*3 has returned.
C1_Witness ==
    /\ Returned(1)
    /\ maxNum[1] >= 9
    /\ SegmentSizeInNumbers[1] = 3
    /\ numWorkers[1] >= 2
    /\ Len(finalPrimes[1]) >= 4

\* C2: a returned list is strictly ascending (so no value occurs twice),
\* whatever the order in which the segment results arrived.
C2_StrictlyAscending ==
    \A r \in Runs : Returned(r) => StrictlyAscending(finalPrimes[r])

\* A call has returned whose results arrived out of ascending order.
C2_Witness ==
    /\ Returned(1)
    /\ Len(finalPrimes[1]) >= 3
    /\ ~StrictlyAscending(Concatenate(intermediateCollectedPrimes[1]))

\* C3: two calls with the same maxNum return the same list, whatever their
\* segment widths and worker counts.
C3_SameForAnyWidthAndWorkers ==
    (Returned(1) /\ Returned(2)) => finalPrimes[1] = finalPrimes[2]

\* Both calls returned, made with different widths and worker counts.
C3_Witness ==
    /\ Returned(1) /\ Returned(2)
    /\ maxNum[1] >= 4
    /\ SegmentSizeInNumbers[1] # SegmentSizeInNumbers[2]
    /\ numWorkers[1] # numWorkers[2]
    /\ Len(finalPrimes[2]) >= 2

SameArguments ==
    /\ maxNum[1] = maxNum[2]
    /\ numWorkers[1] = numWorkers[2]
    /\ SegmentSizeInNumbers[1] = SegmentSizeInNumbers[2]

\* C4: two calls with identical arguments return identical lists, whatever
\* the schedule of each.
C4_Deterministic ==
    (SameArguments /\ Returned(1) /\ Returned(2)) =>
        finalPrimes[1] = finalPrimes[2]

\* Both calls returned, identical arguments, results arrived in different
\* orders.
C4_Witness ==
    /\ SameArguments
    /\ Returned(1) /\ Returned(2)
    /\ Len(finalPrimes[1]) >= 2
    /\ intermediateCollectedPrimes[1] # intermediateCollectedPrimes[2]

\* C5: for maxNum < 2 no goroutine is started, no task is sent and the empty
\* list is returned; maxNum = 2, 3, 4 return [2], [2,3], [2,3].
C5_Boundary ==
    \A r \in Runs :
        /\ maxNum[r] < 2 =>
              /\ \A l \in DOMAIN sentCount[r] : sentCount[r][l] = 0
              /\ dispPc[r] = "idle"
              /\ wPc[r] = << >>
              /\ tasks[r].buf = << >>
        /\ Returned(r) =>
              /\ maxNum[r] < 2 => finalPrimes[r] = << >>
              /\ maxNum[r] = 2 => finalPrimes[r] = << 2 >>
              /\ maxNum[r] = 3 => finalPrimes[r] = << 2, 3 >>
              /\ maxNum[r] = 4 => finalPrimes[r] = << 2, 3 >>

\* The call with maxNum = 4 (base prime 2, 4 = 2*2 the last value) returned.
C5_Witness ==
    /\ Returned(1)
    /\ maxNum[1] = 4
    /\ numWorkers[1] >= 2
    /\ basePrimes[1] = << 2 >>

\* C6: a call with maxNum >= 2 eventually returns, with the dispatcher,
\* every worker and the collector ended.
C6_Terminates == (maxNum[1] >= 2) => <>AllTerminated(1)

\* A call with several workers and segments has ended, goroutines included.
C6_Witness ==
    /\ AllTerminated(1)
    /\ numWorkers[1] >= 2
    /\ numDispatchedSegments[1] >= 3

\* C7: once the main goroutine is past wgCollector.Wait (and so whenever
\* results is closed), the collector has appended exactly
\* numDispatchedSegments results.
C7_AggregationAfterAllResults ==
    \A r \in Runs :
        (\/ mainPc[r] \in {"closeResults", "assemble", "waitWorkers"}
         \/ (Returned(r) /\ maxNum[r] >= 2)
         \/ results[r].closed)
        => /\ Len(intermediateCollectedPrimes[r]) = numDispatchedSegments[r]
           /\ wgCollector[r] = 0

\* The main goroutine has just passed wgCollector.Wait of a 3-segment call.
C7_Witness ==
    /\ mainPc[1] = "closeResults"
    /\ numDispatchedSegments[1] >= 3
    /\ numWorkers[1] >= 2

\* C8: every task sent is in the tasks channel, held by one worker, or has
\* produced its one result; no task has two results, and at the return
\* every task sent has exactly one.
C8_OneResultPerTask ==
    \A r \in Runs : \A l \in DOMAIN sentCount[r] :
        /\ resultCount[r][l] <= 1
        /\ sentCount[r][l] = Buffered(r, l) + Held(r, l) + resultCount[r][l]
        /\ Returned(r) => resultCount[r][l] = sentCount[r][l]

\* Three tasks were sent and each has produced its result.
C8_Witness ==
    /\ numWorkers[1] >= 2
    /\ Cardinality({l \in DOMAIN sentCount[1] : sentCount[1][l] = 1}) >= 3
    /\ \A l \in DOMAIN sentCount[1] : resultCount[1][l] = sentCount[1][l]

\* C9: no task is received twice, no two workers hold the same task, and
\* every task sent is either still in the channel or was received once.
C9_TaskTakenOnce ==
    \A r \in Runs : \A l \in DOMAIN sentCount[r] :
        /\ recvCount[r][l] <= 1
        /\ Held(r, l) <= 1
        /\ sentCount[r][l] = Buffered(r, l) + recvCount[r][l]

\* Two workers hold different tasks at the same time.
C9_Witness ==
    \E w1, w2 \in DOMAIN wPc[1] :
        /\ w1 # w2
        /\ wPc[1][w1] = "send" /\ wPc[1][w2] = "send"
        /\ wTask[1][w1].low # wTask[1][w2].low
        /\ tasks[1].buf # << >>

\* C10: the returned list is as long as the collector's count, which is the
\* sum of the lengths of the results the workers sent.
C10_LengthIsSumOfResults ==
    \A r \in Runs :
        Returned(r) =>
            /\ Len(finalPrimes[r]) = collectedPrimesCount[r]
            /\ collectedPrimesCount[r] = producedPrimesCount[r]

\* A call over three or more segments returned at least four primes.
C10_Witness ==
    /\ Returned(1)
    /\ Len(intermediateCollectedPrimes[1]) >= 3
    /\ producedPrimesCount[1] >= 4

\* C11: the segments sent tile [0, maxNum]: the first starts at 0, each next
\* one starts right after the previous one, which is SegmentSizeInNumbers
\* wide; every segment lies in [0, maxNum] and is at most that wide; and
\* when the dispatcher has ended the last one ends at maxNum, so that every
\* integer of [0, maxNum] lies in exactly one segment.
C11_SegmentsTile ==
    \A r \in Runs :
        LET d == dispatchedTasks[r]
            W == SegmentSizeInNumbers[r]
        IN  /\ d # << >> => d[1].low = 0
            /\ \A i \in DOMAIN d :
                  /\ 0 <= d[i].low /\ d[i].low <= d[i].high
                  /\ d[i].high <= maxNum[r]
                  /\ d[i].high - d[i].low + 1 <= W
            /\ \A i \in 1..(Len(d) - 1) :
                  /\ d[i].low < d[i + 1].low
                  /\ d[i + 1].low = d[i].high + 1
                  /\ d[i].high - d[i].low + 1 = W
            /\ dispPc[r] = "done" =>
                  /\ d # << >>
                  /\ d[Len(d)].high = maxNum[r]
                  /\ \A v \in 0..maxNum[r] :
                        Cardinality({i \in DOMAIN d :
                                        d[i].low <= v /\ v <= d[i].high}) = 1

\* The dispatcher has ended after three or more segments, the last shorter.
C11_Witness ==
    /\ dispPc[1] = "done"
    /\ Len(dispatchedTasks[1]) >= 3
    /\ LET last == dispatchedTasks[1][Len(dispatchedTasks[1])]
       IN  last.high - last.low + 1 < SegmentSizeInNumbers[1]

\* The least k with k * d >= n: ceil(n / d).
CeilDiv(n, d) == CHOOSE k \in 0..n : k * d >= n /\ (k - 1) * d < n

\* C12: the count computed for the collector is ceil((maxNum + 1) / W), the
\* dispatcher never sends more tasks than that, and when it has ended it has
\* sent exactly that many.
C12_SegmentCount ==
    \A r \in Runs :
        (maxNum[r] >= 2 /\ mainPc[r] \notin {"start", "unused"}) =>
            /\ numDispatchedSegments[r] =
                  CeilDiv(maxNum[r] + 1, SegmentSizeInNumbers[r])
            /\ Len(dispatchedTasks[r]) <= numDispatchedSegments[r]
            /\ dispPc[r] = "done" =>
                  Len(dispatchedTasks[r]) = numDispatchedSegments[r]

\* The dispatcher has ended; maxNum + 1 is no multiple of the width.
C12_Witness ==
    /\ dispPc[1] = "done"
    /\ numDispatchedSegments[1] >= 3
    /\ (maxNum[1] + 1) % SegmentSizeInNumbers[1] # 0
    /\ maxNum[1] % SegmentSizeInNumbers[1] # 0

Applied(fn) == pure.fn = fn /\ pure.done

\* C13: the worker's result for a segment [low, high] of [0, N], with the
\* base primes of N, is the ascending list of the primes of
\* [max(low, 2), high].
C13_SegmentResult ==
    Applied("segmentSieve") =>
        LET task == pure.args.task
        IN  pure.result =
                PrimesBetween(IF task.low < 2 THEN 2 ELSE task.low, task.high)

\* A segment sieved whose low is 3*3 and whose high is 5*5.
C13_Witness ==
    /\ Applied("segmentSieve")
    /\ pure.args.task = [low |-> 9, high |-> 25]
    /\ pure.args.basePrimes = << 2, 3, 5 >>
    /\ pure.result = << 11, 13, 17, 19, 23 >>

\* C14: the base sieve returns the ascending list of the primes <= L: none
\* for L < 2, [2] for L = 2, [2,3] for L = 3 and 4; no even number is ever
\* marked in isComposite, and no even number but 2 is returned.
C14_BaseSieve ==
    Applied("baseSieve") =>
        LET L == pure.args.maxNumInternal
            primes == pure.result.primes
        IN  /\ primes = PrimesBetween(2, L)
            /\ StrictlyAscending(primes)
            /\ L < 2 => primes = << >>
            /\ L = 2 => primes = << 2 >>
            /\ L \in {3, 4} => primes = << 2, 3 >>
            /\ \A v \in pure.result.isComposite : v % 2 = 1
            /\ \A i \in DOMAIN primes : primes[i] % 2 = 0 => primes[i] = 2

\* The base sieve applied to a limit with odd composites and unmarked evens.
C14_Witness ==
    /\ Applied("baseSieve")
    /\ pure.args.maxNumInternal >= 30
    /\ {9, 15, 21, 25, 27} \subseteq pure.result.isComposite
    /\ Len(pure.result.primes) >= 10

\* C15: the list a call returns is the list the sequential base sieve
\* returns for the same maxNum.
C15_EqualsSequentialSieve ==
    \A r \in Runs :
        Returned(r) =>
            finalPrimes[r] = sieveOfEratosthenesSequentialBase(maxNum[r])

\* A call with a perfect square as maxNum, over several segments and
\* workers, has returned.
C15_Witness ==
    /\ Returned(1)
    /\ maxNum[1] = 9
    /\ numWorkers[1] = 3
    /\ numDispatchedSegments[1] = 4
    /\ finalPrimes[1] = << 2, 3, 5, 7 >>

\* The call has ended in a failure the caller (or the operator) gets to see.
Failed(r) == panicked[r] # "none"

\* The call was entered (mainPc has left the entry of the function).
Entered(r) == mainPc[r] \notin {"start", "unused"}

\* No goroutine of the call can take a step.
Blocked(r) ==
    ~ENABLED (\/ Main(r)
              \/ Dispatcher(r)
              \/ Collector(r)
              \/ \E w \in DOMAIN wPc[r] : Worker(r, w))

\* C16: a call with numWorkers <= 0 (maxNum >= 2, a positive segment width)
\* fails before any task is dispatched and before any goroutine can block:
\* once entered it has failed, and neither the dispatcher nor the collector
\* was started.
C16_NonPositiveWorkersFailFast ==
    \A r \in Runs :
        (numWorkers[r] <= 0 /\ maxNum[r] >= 2 /\ SegmentSizeInNumbers[r] >= 1) =>
            /\ dispPc[r] = "idle"
            /\ collPc[r] = "idle"
            /\ Entered(r) => Failed(r)

\* C17: a call in a build with SegmentSizeInNumbers <= 0 (maxNum >= 2, at
\* least one worker) fails without entering the segment-counting loop.
C17_NonPositiveWidthFailFast ==
    \A r \in Runs :
        (SegmentSizeInNumbers[r] <= 0 /\ maxNum[r] >= 2 /\ numWorkers[r] >= 1) =>
            /\ mainPc[r] # "countSegments"
            /\ Entered(r) => Failed(r)

\* C18: a call never returns a list assembled from fewer results than the
\* numDispatchedSegments planned, and a call that has come to a stop with
\* fewer results than planned has ended in a reported failure.
C18_ShortfallIsReported ==
    \A r \in Runs :
        /\ (Returned(r) /\ maxNum[r] >= 2) =>
              Len(intermediateCollectedPrimes[r]) = numDispatchedSegments[r]
        /\ (/\ collPc[r] = "run"
            /\ Len(intermediateCollectedPrimes[r]) < numDispatchedSegments[r]
            /\ Blocked(r))
           => Failed(r)

\* Worker w has not ended and cannot take a step.
WorkerBlocked(r, w) == wPc[r][w] # "done" /\ ~ENABLED Worker(r, w)

\* The collector has not ended and cannot take a step.
CollectorBlocked(r) == collPc[r] = "run" /\ ~ENABLED Collector(r)

\* The main goroutine, between the start of the goroutines and the final
\* assembly, cannot take a step.
MainBlockedInAggregation(r) ==
    /\ mainPc[r] \in {"waitCollector", "closeResults", "assemble"}
    /\ ~ENABLED Main(r)

\* Worker w stands at results <- ... and the open results channel is full.
BlockedOnResults(r, w) ==
    /\ wPc[r][w] = "send"
    /\ ~results[r].closed
    /\ Len(results[r].buf) = numWorkers[r]

\* Worker w stands at range tasks and the open tasks channel is empty.
BlockedOnTasks(r, w) ==
    /\ wPc[r][w] = "recv"
    /\ ~tasks[r].closed
    /\ tasks[r].buf = << >>

C20_NoOverflowInSegmentSieve ==
    Applied("segmentArithmetic") => pure.result.expr = "none"

\* The base primes of run r have been constructed.
BasePrimesBuilt(r) == Entered(r) /\ maxNum[r] >= 2

\* C21: once constructed, basePrimes is strictly ascending (so free of
\* duplicates) and holds exactly the primes p with p*p <= maxNum; and no
\* step taken after its construction, a worker's included, changes it.
C21_BasePrimesExactAndFrozen ==
    /\ [](\A r \in Runs :
            BasePrimesBuilt(r) =>
                /\ StrictlyAscending(basePrimes[r])
                /\ Range(basePrimes[r]) =
                      {p \in 0..maxNum[r] : IsPrime(p) /\ p * p <= maxNum[r]})
    /\ [][\A r \in Runs :
            BasePrimesBuilt(r) => basePrimes'[r] = basePrimes[r]]_vars

\* With the base primes 2 and 3, workers have sieved and sent three results.
C21_Witness ==
    /\ basePrimes[1] = << 2, 3 >>
    /\ numWorkers[1] >= 2
    /\ Cardinality({l \in DOMAIN resultCount[1] : resultCount[1][l] = 1}) >= 3

\* Worker w of run r takes the step that receives a task and sieves it.
SievesATask(r, w) == wPc[r][w] = "recv" /\ wPc'[r][w] = "send"

\* C22: the step in which a worker sieves its task changes nothing that
\* belongs to another worker (its task, its result) and no result already
\* produced (in the results channel or collected); and what it produces is
\* the list of primes of its own segment, as sieved from an all-zero
\* bitset, whatever segments the worker has sieved before.
C22_SegmentStateIsOwned ==
    [][\A r \in Runs : \A w \in DOMAIN wPc[r] :
          SievesATask(r, w) =>
              /\ \A v \in DOMAIN wPc[r] \ {w} :
                    /\ wTask'[r][v] = wTask[r][v]
                    /\ segmentPrimes'[r][v] = segmentPrimes[r][v]
              /\ results'[r] = results[r]
              /\ intermediateCollectedPrimes'[r] = intermediateCollectedPrimes[r]
              /\ segmentPrimes'[r][w] =
                    PrimesBetween(IF wTask'[r][w].low < 2 THEN 2
                                  ELSE wTask'[r][w].low,
                                  wTask'[r][w].high)]_vars

\* Two workers each hold a sieved segment while results produced earlier
\* (so by one of them, on a previous task) wait in the results channel and
\* with the collector.
C22_Witness ==
    /\ numWorkers[1] = 2
    /\ \A w \in DOMAIN wPc[1] : wPc[1][w] = "send" /\ segmentPrimes[1][w] # << >>
    /\ results[1].buf # << >>
    /\ intermediateCollectedPrimes[1] # << >>

\* The call of findPrimesWithSieve has returned.
SieveReturned == sieve.mainPc = "returned"

\* C23: findPrimesWithSieve returns the ascending list of exactly the primes
\* of [2, maxNum] in every schedule of the workers' writes: after wg.Wait
\* the array has true exactly at the non-primes, and no step ever turns an
\* element of the array from true to false.
C23_SharedArraySieve ==
    /\ [](/\ SieveReturned => sieve.primes = PrimesBetween(2, sieve.maxNum)
          /\ sieve.mainPc = "collect" =>
                sieve.isNotPrime = [i \in 0..sieve.maxNum |-> ~IsPrime(i)])
    /\ [][sieve.mainPc \in {"wait", "collect"} =>
             \A i \in DOMAIN sieve.isNotPrime :
                 sieve.isNotPrime[i] => sieve'.isNotPrime[i]]_vars

\* The call has returned after two workers stood at a write of the same
\* element at the same time.
C23_Witness ==
    /\ SieveReturned
    /\ sieve.numWorkers >= 2
    /\ sieve.raced # {}
    /\ Len(sieve.primes) >= 5

\* The call of findPrimes has returned.
PipelineReturned == pipeline.mainPc = "returned"

\* What findPrimes is to return, and how its numbers are handed out: the
\* returned list is the ascending list of the primes of [1, maxNum], no
\* number is received twice, and at the return every number of 1..maxNum
\* was received once.
PipelineResultAndHandout ==
    /\ PipelineReturned =>
          /\ pipeline.returned = PrimesBetween(1, pipeline.maxNum)
          /\ \A v \in 1..pipeline.maxNum : pipeline.received[v] = 1
    /\ pipeline.mainPc = "collect" =>
          \A v \in 1..pipeline.maxNum : pipeline.received[v] <= 1

\* C24 as stated: the result and the handout, and every number a worker has
\* found prime is already collected when results is closed.
C24_CollectedBeforeClose ==
    /\ PipelineResultAndHandout
    /\ (pipeline.mainPc = "collect" /\ pipeline.results.closed) =>
          pipeline.found \subseteq Range(pipeline.primes)

\* C24 amended: the result and the handout; every number a worker has found
\* prime is in the results channel or collected when results is closed
\* (it was sent before the close), each once, and all of them are collected
\* when the collecting loop has ended.
C24_SentBeforeCloseCollectedAtReturn ==
    /\ PipelineResultAndHandout
    /\ (pipeline.mainPc \in {"collect", "returned"} /\ pipeline.results.closed) =>
          /\ pipeline.found =
                Range(pipeline.results.buf) \cup Range(pipeline.primes)
          /\ Cardinality(pipeline.found) =
                Len(pipeline.results.buf) + Len(pipeline.primes)
    /\ PipelineReturned => Range(pipeline.primes) = pipeline.found

\* A call with three workers has returned four primes that arrived out of
\* ascending order.
C24_Witness ==
    /\ PipelineReturned
    /\ pipeline.numWorkers = 3
    /\ Len(pipeline.returned) = 4
    /\ ~StrictlyAscending(pipeline.primes)

\* C25: results is closed only after jobs was closed and every worker has
\* called wg.Done; no worker sends on results once it is closed (none
\* stands at the send, and no send has panicked); and the call returns.
C25_CloseOrderAndTermination ==
    /\ [](pipeline.mainPc # "unused" =>
            /\ pipeline.panicked = "none"
            /\ (pipeline.closerPc \in {"close", "done"} \/ pipeline.results.closed) =>
                  /\ pipeline.jobs.closed
                  /\ pipeline.wg = 0
                  /\ \A w \in DOMAIN pipeline.workers :
                        pipeline.workers[w].pc = "done")
    /\ <>PipelineReturned

\* results has just been closed, three workers done, while the collecting
\* loop has not yet taken the primes that wait in the channel.
C25_Witness ==
    /\ pipeline.mainPc = "collect"
    /\ pipeline.results.closed
    /\ pipeline.numWorkers = 3
    /\ Len(pipeline.results.buf) >= 3

\* C26: isPrime(n) is true exactly when n is prime, for every n of
\* -IsPrimeMaxNeg..IsPrimeMaxN: false for the negatives, 0 and 1, true for 2.
C26_IsPrimeIsPrimality ==
    Applied("isPrime") =>
        LET n == pure.args.n
        IN  /\ pure.result = IsPrime(n)
            /\ n < 2 => pure.result = FALSE
            /\ n = 2 => pure.result = TRUE

\* isPrime was applied to 121 = 11*11, whose only odd divisor up to the
\* square root is the square root itself.
C26_Witness ==
    /\ Applied("isPrime")
    /\ pure.args.n = 121
    /\ pure.result = FALSE

\* C27: sieveOfEratosthenesSequential(maxNum) is the ascending list of the
\* primes <= maxNum, empty for maxNum < 2, and equals the list of
\* sieveOfEratosthenesSequentialBase(maxNum).
C27_SequentialSievesAgree ==
    Applied("sequentialSieves") =>
        LET n == pure.args.maxNum
        IN  /\ pure.result.sequential = PrimesBetween(2, n)
            /\ StrictlyAscending(pure.result.sequential)
            /\ n < 2 => pure.result.sequential = << >>
            /\ pure.result.sequential = pure.result.base

\* Both sieves were applied to 49 = 7*7 (the last value marked is maxNum).
C27_Witness ==
    /\ Applied("sequentialSieves")
    /\ pure.args.maxNum = 49
    /\ Len(pure.result.sequential) = 15
    /\ Len(pure.result.base) = 15

\* The smallest multiple of p that is >= low.
FirstMultipleFrom(p, low) == CHOOSE m \in low..(low + p - 1) : m % p = 0

\* first, first + p, first + 2p, ... through high.
EveryPthFrom(first, p, high) ==
    {v \in first..high : (v - first) % p = 0}

\* C28: a base prime p with p*p <= high marks exactly the values
\* first, first + p, ... through high, where first is the larger of p*p and
\* the smallest multiple of p that is >= low; so it marks no p*k with k < p,
\* and a base prime that lies in the segment is not marked (by any base
\* prime) and is in the list of primes collected.
C28_MarkingStartsAtSquare ==
    Applied("segmentMarks") =>
        LET task == pure.args.task
            bp == pure.args.basePrimes
        IN  \A k \in DOMAIN bp :
                LET p == bp[k]
                    fromLow == FirstMultipleFrom(p, task.low)
                    first == IF p * p > fromLow THEN p * p ELSE fromLow
                IN  /\ p * p <= task.high =>
                          /\ pure.result.marksOf[k] =
                                EveryPthFrom(first, p, task.high)
                          /\ \A v \in pure.result.marksOf[k] : v \div p >= p
                    /\ p \in task.low..task.high =>
                          /\ p \notin pure.result.marked
                          /\ p \in Range(pure.result.primes)

\* The segment [3, 25] sieved with 2, 3, 5: 3 and 5 lie in it, 3 starts at
\* 9 = 3*3 (not at 3 or 6) and 5 marks 25 = 5*5 only.
C28_Witness ==
    /\ Applied("segmentMarks")
    /\ pure.args.task = [low |-> 3, high |-> 25]
    /\ pure.args.basePrimes = << 2, 3, 5 >>
    /\ pure.result.marksOf[2] = {9, 12, 15, 18, 21, 24}
    /\ pure.result.marksOf[3] = {25}

\* C29: the values marked by the loop that stops at the first p with
\* p*p > high are the values marked by the loop run over all the base
\* primes; a base prime at or after the break marks nothing in the segment.
C29_BreakLosesNothing ==
    Applied("segmentMarks") =>
        LET task == pure.args.task
            bp == pure.args.basePrimes
        IN  /\ pure.result.marked = pure.result.markedWithoutBreak
            /\ \A k \in DOMAIN bp :
                  bp[k] * bp[k] > task.high => pure.result.marksOf[k] = {}

\* The segment [9, 24] sieved with 2, 3, 5: the loop stops at 5 (25 > 24),
\* which has the multiples 10, 15, 20 in the segment, all below 5*5.
C29_Witness ==
    /\ Applied("segmentMarks")
    /\ pure.args.task = [low |-> 9, high |-> 24]
    /\ pure.args.basePrimes = << 2, 3, 5 >>
    /\ pure.result.marksOf[3] = {}
    /\ {10, 15, 20} \subseteq pure.result.marked

\* The lists of primes of run r that exist in the state: those the workers
\* hold, those in the results channel, those collected, and the final list.
PrimeListsOf(r) ==
    {segmentPrimes[r][w] : w \in DOMAIN segmentPrimes[r]}
        \cup Range(results[r].buf)
        \cup Range(intermediateCollectedPrimes[r])
        \cup {finalPrimes[r]}

\* segmentBitset with the bits of the values of S (values of the task's
\* segment) set in addition.
WithBitsOf(S, segmentBitset, task) ==
    [b \in DOMAIN segmentBitset |->
        segmentBitset[b] \cup
            {o \in 0..7 : task.low + 8 * b + o \in S /\ task.low + 8 * b + o <= task.high}]

\* C30: 0 and 1 are in no SegmentResult and not in the final list; for the
\* segment a worker has sieved, the marking has set neither the bit of 0 nor
\* the bit of 1, and the collecting scan gives the same list whatever bits
\* of 0 and 1 are set.
C30_ZeroAndOneExcluded ==
    \A r \in Runs :
        /\ \A list \in PrimeListsOf(r) : Range(list) \cap {0, 1} = {}
        /\ \A w \in DOMAIN wPc[r] :
              wPc[r][w] = "send" =>
                  LET task == wTask[r][w]
                      segmentBitset ==
                          SieveSegment(SegmentBitsetFor(task), 1, task,
                                       basePrimes[r])
                  IN  /\ MarkedValues(segmentBitset, task) \cap {0, 1} = {}
                      /\ \A S \in SUBSET {0, 1} :
                            CollectSegment(<< >>, 0, task.high - task.low + 1,
                                           task,
                                           WithBitsOf(S, segmentBitset, task))
                                = segmentPrimes[r][w]

\* A worker holds the sieved segment that starts at 0 while another result
\* is already collected.
C30_Witness ==
    /\ \E w \in DOMAIN wPc[1] :
          /\ wPc[1][w] = "send"
          /\ wTask[1][w].low = 0
          /\ wTask[1][w].high >= 4
          /\ Len(segmentPrimes[1][w]) >= 2
    /\ intermediateCollectedPrimes[1] # << >>

\* C31: a worker that has ended has found tasks closed and empty, with every
\* planned task sent and none left in the channel; tasks is closed by the
\* dispatcher's last step, after the last task was sent, and only once (a
\* closed tasks channel stays closed, and no close or send panics).
C31_WorkersEndOnClosedEmptyTasks ==
    /\ [](\A r \in Runs :
            /\ panicked[r] = "none"
            /\ \A w \in DOMAIN wPc[r] :
                  wPc[r][w] = "done" =>
                      /\ tasks[r].closed
                      /\ tasks[r].buf = << >>
                      /\ Len(dispatchedTasks[r]) = numDispatchedSegments[r]
            /\ tasks[r].closed =>
                  /\ dispPc[r] = "done"
                  /\ Len(dispatchedTasks[r]) = numDispatchedSegments[r])
    /\ [][\A r \in Runs :
            /\ (~tasks[r].closed /\ tasks'[r].closed) =>
                  /\ dispPc[r] = "run" /\ dispPc'[r] = "done"
                  /\ ~(currentLow[r] <= maxNum[r])
            /\ tasks[r].closed =>
                  /\ tasks'[r].closed
                  /\ Len(tasks'[r].buf) <= Len(tasks[r].buf)]_vars

\* One worker has ended while another still holds the last of three tasks.
C31_Witness ==
    /\ numDispatchedSegments[1] >= 3
    /\ \E w \in DOMAIN wPc[1] : wPc[1][w] = "done"
    /\ \E v \in DOMAIN wPc[1] : wPc[1][v] = "send"

\* C32: nothing ties the order of the results to the order of dispatch. A
\* worker that holds the result of a later segment, while another worker
\* still holds the result of an earlier one, can send whenever the results
\* channel has room; and the collector can take whatever result is first
\* in the channel.
C32_LaterSegmentMaySendFirst ==
    \A r \in Runs :
        /\ \A w, v \in DOMAIN wPc[r] :
              ( /\ Running(r)
                /\ wPc[r][w] = "send" /\ wPc[r][v] = "send"
                /\ wTask[r][v].low < wTask[r][w].low
                /\ ~results[r].closed
                /\ Len(results[r].buf) < numWorkers[r] )
              => ENABLED WorkerSend(r, w)
        /\ (Running(r) /\ collPc[r] = "run" /\ results[r].buf # << >>)
              => ENABLED CollectorRecv(r)

\* With two workers the collector has appended the primes of a later
\* segment before those of an earlier one, main still waiting for results.
C32_Witness ==
    /\ numWorkers[1] >= 2
    /\ numDispatchedSegments[1] >= 2
    /\ Len(intermediateCollectedPrimes[1]) >= 2
    /\ intermediateCollectedPrimes[1][1] # << >>
    /\ intermediateCollectedPrimes[1][2] # << >>
    /\ intermediateCollectedPrimes[1][1][1] > intermediateCollectedPrimes[1][2][1]
    /\ ~StrictlyAscending(Concatenate(intermediateCollectedPrimes[1]))
    /\ mainPc[1] = "waitCollector"

\* C33: when the main goroutine is about to close results, and ever after,
\* no worker holds a task or a result to send, the tasks channel is empty
\* and every planned task has been sent; so no send on the closed channel
\* happens (no such panic, and the closed channel is never changed again).
\* Workers and dispatcher need not have ended.
C33_NoSendAfterCloseOfResults ==
    /\ [](\A r \in Runs :
            /\ panicked[r] # "send on closed channel"
            /\ (mainPc[r] = "closeResults" \/ results[r].closed) =>
                  /\ \A w \in DOMAIN wPc[r] :
                        wPc[r][w] # "send" /\ wTask[r][w] = NoTask
                  /\ tasks[r].buf = << >>
                  /\ Len(dispatchedTasks[r]) = numDispatchedSegments[r]
                  /\ ~(currentLow[r] <= maxNum[r])
                  /\ results[r].buf = << >>)
    /\ [][\A r \in Runs :
            results[r].closed => results'[r] = results[r]]_vars

\* results is closed while a worker has not yet left its loop and the
\* dispatcher has not yet closed tasks.
C33_Witness ==
    /\ results[1].closed
    /\ numDispatchedSegments[1] >= 2
    /\ \E w \in DOMAIN wPc[1] : wPc[1][w] = "recv"
    /\ dispPc[1] = "run"
    /\ ~tasks[1].closed

\* C34: the collector writes intermediateCollectedPrimes and
\* collectedPrimesCount only while the main goroutine is in
\* wgCollector.Wait, each append with its wgCollector.Done; once the main
\* goroutine has passed the Wait nothing is left for the collector to take
\* (no result buffered, none held by a worker, counter 0) and the two
\* variables never change again.
C34_CollectorWritesBeforeMainReads ==
    /\ [](\A r \in Runs :
            (\/ mainPc[r] \in {"closeResults", "assemble", "waitWorkers"}
             \/ (Returned(r) /\ maxNum[r] >= 2))
            => /\ results[r].buf = << >>
               /\ \A w \in DOMAIN wPc[r] : wPc[r][w] # "send"
               /\ tasks[r].buf = << >>
               /\ collectedPrimesCount[r] =
                     Len(Concatenate(intermediateCollectedPrimes[r])))
    /\ [][\A r \in Runs :
            (\/ intermediateCollectedPrimes'[r] # intermediateCollectedPrimes[r]
             \/ collectedPrimesCount'[r] # collectedPrimesCount[r])
            => /\ mainPc[r] = "waitCollector" /\ mainPc'[r] = "waitCollector"
               /\ wgCollector[r] > 0
               /\ wgCollector'[r] = wgCollector[r] - 1
               /\ Len(intermediateCollectedPrimes'[r]) =
                     Len(intermediateCollectedPrimes[r]) + 1]_vars

\* The main goroutine assembles the lists of three segments while the
\* collector has not yet left its loop.
C34_Witness ==
    /\ mainPc[1] = "assemble"
    /\ collPc[1] = "run"
    /\ Len(intermediateCollectedPrimes[1]) >= 3
    /\ collectedPrimesCount[1] >= 3

\* C35: in every state of a call the tasks sent by the dispatcher are the
\* tasks in the tasks channel, the tasks held by workers, the results in
\* the results channel and the results appended by the collector, counted
\* together; the number appended never exceeds numDispatchedSegments, and
\* wgCollector is the number still to be appended, never negative.
C35_SegmentsAreConserved ==
    \A r \in Runs :
        /\ Len(dispatchedTasks[r]) =
              Len(tasks[r].buf)
              + Cardinality({w \in DOMAIN wPc[r] : wPc[r][w] = "send"})
              + Len(results[r].buf)
              + Len(intermediateCollectedPrimes[r])
        /\ Len(intermediateCollectedPrimes[r]) <= numDispatchedSegments[r]
        /\ Len(dispatchedTasks[r]) <= numDispatchedSegments[r]
        /\ wgCollector[r] >= 0
        /\ mainPc[r] \notin {"start", "unused", "countSegments"} =>
              wgCollector[r] =
                  numDispatchedSegments[r] - Len(intermediateCollectedPrimes[r])
        /\ panicked[r] # "negative WaitGroup counter"

\* Of four tasks sent one is in each of the four places.
C35_Witness ==
    /\ Len(dispatchedTasks[1]) = 4
    /\ Len(tasks[1].buf) = 1
    /\ Cardinality({w \in DOMAIN wPc[1] : wPc[1][w] = "send"}) = 1
    /\ Len(results[1].buf) = 1
    /\ Len(intermediateCollectedPrimes[1]) = 1

\* C36: a call with maxNum >= 2 that has returned has all its numWorkers
\* workers ended, each having called Done (wgWorkers is 0), and the tasks
\* channel closed by the ended dispatcher; the step out of the final
\* wgWorkers.Wait is taken only in such a state; and a main goroutine that
\* has come to this Wait always returns.
C36_ReturnsAfterAllWorkersEnded ==
    /\ [](\A r \in Runs :
            (Returned(r) /\ maxNum[r] >= 2) =>
                /\ DOMAIN wPc[r] = 1..numWorkers[r]
                /\ \A w \in DOMAIN wPc[r] : wPc[r][w] = "done"
                /\ wgWorkers[r] = 0
                /\ tasks[r].closed /\ tasks[r].buf = << >>
                /\ dispPc[r] = "done")
    /\ [][\A r \in Runs :
            (mainPc[r] = "waitWorkers" /\ mainPc'[r] # "waitWorkers") =>
                /\ mainPc'[r] = "returned"
                /\ wgWorkers[r] = 0
                /\ \A w \in DOMAIN wPc[r] : wPc[r][w] = "done"]_vars
    /\ \A r \in Runs : (mainPc[r] = "waitWorkers") ~> Returned(r)

\* A call with two workers has returned from the final wgWorkers.Wait:
\* both workers have called Done and tasks is closed.
C36_Witness ==
    /\ Returned(1)
    /\ maxNum[1] >= 2
    /\ numWorkers[1] = 2
    /\ wgWorkers[1] = 0
    /\ tasks[1].closed
    /\ \A w \in DOMAIN wPc[1] : wPc[1][w] = "done"

\* C37: for every task the dispatcher makes, every index passed to
\* markBitSegment and to isBitMarkedSegment lies in [0, high - low], inside
\* the (high - low + 1 + 7) / 8 bytes of the segment's bitset, and the
\* guard `multiple >= task.low` of the marking loop is never false.
C37_IndicesInRangeGuardTrue ==
    Applied("segmentIndices") =>
        LET task == pure.args.task
        IN  /\ \A i \in pure.result.marked \cup pure.result.read :
                  /\ 0 <= i /\ i <= task.high - task.low
                  /\ i \div 8 < pure.result.segmentBitsetLen
            /\ pure.result.guardFalse = {}

\* The part of C37 that holds for every int: the indices are in range.
C37_IndicesInRange ==
    Applied("segmentIndices") =>
        LET task == pure.args.task
        IN  \A i \in pure.result.marked \cup pure.result.read :
                /\ 0 <= i /\ i <= task.high - task.low
                /\ i \div 8 < pure.result.segmentBitsetLen

\* C37 holds for the tasks on which no computation of the loop leaves the
\* range of int (those of C20): there the guard is never false.
C37_GuardTrueInRange ==
    (Applied("segmentIndices")
       /\ SegmentArithmetic(1, pure.args.task, pure.args.basePrimes).expr = "none")
    => pure.result.guardFalse = {}

\* C38: when the main goroutine of findPrimesWithSieve is at the collecting
\* scan, and after it, every one of the numWorkers marking workers has
\* ended (the counter of wg is 0), so no worker can write the array; and
\* from then on the array is never changed.
C38_CollectionAfterAllMarking ==
    /\ [](( /\ sieve.mainPc \in {"collect", "returned"}
            /\ sieve.maxNum >= 2 )
          => /\ sieve.wg = 0
             /\ DOMAIN sieve.workers = 0..(sieve.numWorkers - 1)
             /\ \A w \in DOMAIN sieve.workers : sieve.workers[w].pc = "done")
    /\ [][sieve.mainPc \in {"collect", "returned"} =>
             sieve'.isNotPrime = sieve.isNotPrime]_vars
    /\ [][( /\ sieve.mainPc \in {"start", "wait"}
            /\ sieve'.mainPc = "collect" )
          => \A w \in DOMAIN sieve.workers : sieve.workers[w].pc = "done"]_vars

\* The main goroutine is at the collecting scan after three workers have
\* marked the multiples of three base primes.
C38_Witness ==
    /\ sieve.mainPc = "collect"
    /\ sieve.numWorkers = 3
    /\ Len(sieve.basePrimes) = 3
    /\ \A w \in DOMAIN sieve.workers : sieve.workers[w].pc = "done"

\* C39: with primesPerWorker = ceil(len(basePrimes) / numWorkers), no index
\* of basePrimes is taken by two workers or twice, an index is taken only
\* by the worker whose block holds it, and when the workers have ended
\* every index was taken exactly once; a worker whose start index is at or
\* past the end takes none. This for every numWorkers >= 1, more workers
\* than base primes and no base prime at all included.
C39_BasePrimesArePartitioned ==
    (sieve.mainPc \in {"wait", "collect", "returned"} /\ sieve.maxNum >= 2) =>
        LET len == Len(sieve.basePrimes)
            ppw == sieve.primesPerWorker
        IN  /\ ppw = CeilDiv(len, sieve.numWorkers)
            /\ DOMAIN sieve.taken = 0..(len - 1)
            /\ \A i \in 0..(len - 1) :
                  /\ Len(sieve.taken[i]) <= 1
                  /\ \A k \in 1..Len(sieve.taken[i]) :
                        LET w == sieve.taken[i][k]
                        IN  w * ppw <= i /\ i < (w + 1) * ppw
                  /\ sieve.mainPc \in {"collect", "returned"} =>
                        Len(sieve.taken[i]) = 1
            /\ \A w \in DOMAIN sieve.workers :
                  w * ppw >= len =>
                      /\ sieve.workers[w].pc # "inner"
                      /\ \A i \in 0..(len - 1) : w \notin Range(sieve.taken[i])

\* A call with three workers and two base primes has returned: each base
\* prime was taken once, and the third worker, whose block starts at the
\* end, took none.
C39_Witness ==
    /\ SieveReturned
    /\ sieve.numWorkers = 3
    /\ Len(sieve.basePrimes) = 2
    /\ sieve.taken = [i \in 0..1 |-> << i >>]
====
